---------------------------- MODULE Spec2Model ----------------------------
(***************************************************************************)
(* A model of the MQTT telemetry simulator: the value generators and the   *)
(* Topic worker thread of topic.py, the command listener of listener.py    *)
(* and the shutdown pass of simulator.py.                                  *)
(*                                                                         *)
(* Each part of the program has its own specification over the shared      *)
(* variable list; the variables of the other parts stay at their idle      *)
(* values.                                                                 *)
(***************************************************************************)
EXTENDS Integers, Sequences, FiniteSets, TLC

VARIABLES
    num,        \* a TopicDataNumber instance
    num_ret,    \* <<>> before the first call, <<v>> the last value returned
    raw,        \* a TopicDataRawValue instance
    raw_cfg,    \* the configuration raw was constructed from
    raw_hist,   \* the values returned by raw.generate_value(), in call order
    mex,        \* a TopicDataMathExpression instance
    mex_cfg,    \* the configuration mex was constructed from
    mex_hist,   \* what the calls of mex.generate_value() did, in call order
    t_cfg,        \* Topic: the configuration the Topic was constructed from
    topic_data,   \* Topic.topic_data: the generator instances
    t_pc,         \* Topic: where the worker thread is in run()
    stop_event,   \* Topic._stop_event
    client,       \* Topic.client: "none" or "obj"
    conn,         \* state of the broker connection of the client object
    loop_running, \* the client's network thread runs (loop_start .. loop_stop)
    pending,      \* run(): the message composed for the publish call
    published,    \* the publish calls made, in order (the first MaxPublish)
    pub_count,    \* number of publish calls made (stops counting at MaxPublish)
    sleep_left,   \* what is left of the time_interval of _stop_event.wait()
    exit_reason,  \* why run() left its loop
    d_pc,         \* Topic.disconnect(): where each caller is
    d_client,     \* Topic.disconnect(): client_instance of each caller
    d_was,        \* Topic.disconnect(): client_was_connected of each caller
    pubs_after_stop,    \* publish calls made with _stop_event set (counted to 2)
    conn_failure,       \* "" or how the connection of the Topic failed
    pubs_after_failure, \* publish calls made after conn_failure (counted to 2)
    in_flight,    \* publish calls not yet completed (counted to MaxInFlight)
    loop_stops,   \* loop_stop() calls made on the client (counted to MaxTeardown)
    disconnects,  \* disconnect() calls made on the client (counted to MaxTeardown)
    l_pc,         \* MQTTCommandListener: where the listener thread is in run()
    l_stop,       \* MQTTCommandListener._stop_event
    l_subscribed, \* MQTTCommandListener._subscribed
    l_client,     \* MQTTCommandListener.client: "none" or "obj"
    l_conn,       \* state of the listener's broker connection
    l_loop,       \* the listener's network thread runs
    l_inbox,      \* the messages handed to _on_message, in order
    l_published,  \* the publish calls of the listener, in order
    s_pc,            \* Simulator.stop(): where the main thread is
    now,             \* the clock, in ticks
    w_delay,         \* per worker: ticks from its stop signal to the end of run()
    w_exit,          \* per worker: the time its thread ends, Never while unknown
    signalled,       \* the workers whose disconnect() was called by stop()
    active_topics,   \* stop(): the workers to signal
    sig_i,           \* stop(): position in active_topics
    start_time,      \* stop(): start_time
    threads_to_join, \* stop(): threads_to_join
    join_deadline,   \* stop(): when the pending join() times out
    warned,          \* the workers stop() warned about after their join()
    reported,        \* stop(): remaining_alive
    settings,     \* main.py: what the settings file holds
    topics,       \* Simulator.topics: the topic_url of each Topic, in order
    client_settings, \* per Topic: Topic.client_settings
    m_pc,         \* where the main thread is in main.py and Simulator.run()
    start_i,      \* Simulator.run(): position of the start loop in self.topics
    interrupted,  \* a KeyboardInterrupt has been raised in the main thread
    exit_status,  \* exit status of the process, -1 while it runs
    f_state,      \* per Topic: "created", "connect", "loop" or "done"
    f_stop,       \* per Topic: _stop_event
    f_client,     \* per Topic: client, "none" or "obj"
    f_pubs,       \* per Topic: publish calls made (counted to MaxFleetPubs)
    f_data,       \* per Topic: Topic.topic_data, the generator instances
    budget_spent, \* stop(): remaining_time <= 0
    c_in,         \* the Topics of a fleet, as far as _connect() reads them
    c_protocol,   \* BrokerSettings.protocol of the fleet
    c_out,        \* the mqtt.Client objects created so far, in order
    security_state,  \* status_server.py: security_state
    mqtt_connected,  \* status_server.py: mqtt_connected
    exit_app,        \* status_server.py: exit_app
    w_pc,            \* where mqtt_listener_thread() is
    w_link,          \* the listener's connection: "down", "tcp" or "up"
    w_recv,          \* the messages on_web_message() was called with, in order
    w_page           \* the last page status_page() rendered

num_vars == <<num, num_ret>>
raw_vars == <<raw, raw_cfg, raw_hist>>
math_vars == <<mex, mex_cfg, mex_hist>>
topic_vars == <<t_cfg, topic_data, t_pc, stop_event, client, conn, loop_running,
                pending, published, pub_count, sleep_left, exit_reason,
                d_pc, d_client, d_was, pubs_after_stop, conn_failure,
                pubs_after_failure, in_flight, loop_stops, disconnects>>
\* the calls that take the connection down, counted for the properties
teardown_vars == <<loop_stops, disconnects>>
\* what the Topic has done so far, kept for the properties
late_vars == <<pubs_after_stop, conn_failure, pubs_after_failure>>
listener_vars == <<l_pc, l_stop, l_subscribed, l_client, l_conn, l_loop, l_inbox,
                   l_published>>
stop_vars == <<s_pc, now, w_delay, w_exit, signalled, active_topics, sig_i, start_time,
               threads_to_join, join_deadline, warned, reported>>
main_vars == <<settings, topics, client_settings, m_pc, start_i, interrupted, exit_status>>
fleet_vars == <<f_state, f_stop, f_client, f_pubs, f_data>>
sim_vars == <<main_vars, fleet_vars, budget_spent>>
client_vars == <<c_in, c_protocol, c_out>>
web_vars == <<security_state, mqtt_connected, exit_app, w_pc, w_link, w_recv, w_page>>
vars == <<num_vars, raw_vars, math_vars, topic_vars, listener_vars, stop_vars, sim_vars,
    client_vars, web_vars>>

\* what the actions of one part leave alone
not_num_vars == <<raw_vars, math_vars, topic_vars, listener_vars, stop_vars, sim_vars,
    client_vars, web_vars>>
not_raw_vars == <<num_vars, math_vars, topic_vars, listener_vars, stop_vars, sim_vars,
    client_vars, web_vars>>
not_topic_vars == <<num_vars, raw_vars, math_vars, listener_vars, stop_vars, sim_vars,
    client_vars, web_vars>>
not_listener_vars == <<num_vars, raw_vars, math_vars, topic_vars, stop_vars, sim_vars,
    client_vars, web_vars>>
not_math_vars == <<num_vars, raw_vars, topic_vars, listener_vars, stop_vars, sim_vars,
    client_vars, web_vars>>
not_client_vars == <<num_vars, raw_vars, math_vars, topic_vars, listener_vars, stop_vars, sim_vars,
    web_vars>>
not_web_vars == <<num_vars, raw_vars, math_vars, topic_vars, listener_vars, stop_vars, sim_vars,
    client_vars>>
not_stop_vars == <<num_vars, raw_vars, math_vars, topic_vars, listener_vars, sim_vars,
    client_vars, web_vars>>
\* the clock of the shutdown pass, which the fleet model leaves out
stop_time_vars == <<now, w_delay, w_exit, start_time, join_deadline>>
not_sim_vars == <<num_vars, raw_vars, math_vars, topic_vars, listener_vars, stop_time_vars,
    client_vars, web_vars>>

(***************************************************************************)
(* Python values.  A value is None, a scalar or a dict; a dict is a set of *)
(* <<key, value>> pairs with one pair per key.                             *)
(***************************************************************************)
None == [tag |-> "none", s |-> 0, d |-> {}]
Scalar(n) == [tag |-> "scalar", s |-> n, d |-> {}]
Dict(m) == [tag |-> "dict", s |-> 0, d |-> m]
Bool(b) == [tag |-> "bool", s |-> IF b THEN 1 ELSE 0, d |-> {}]
Text == [tag |-> "text", s |-> 0, d |-> {}]      \* a str

Keys(m) == {p[1] : p \in m}

\* d.update(u): the pairs of u replace the pairs of d with the same key
DictUpdate(d, u) == {p \in d : p[1] \notin Keys(u)} \cup u

Max2(a, b) == IF a >= b THEN a ELSE b
Min2(a, b) == IF a <= b THEN a ELSE b

(***************************************************************************)
(* TopicDataNumber.  Numbers are counted in halves (1 stands for 0.5), so  *)
(* that rounding to int is not the identity.                               *)
(***************************************************************************)
MaxVal == 4          \* MIN_VALUE, MAX_VALUE range over 0..MaxVal halves
MaxStepBound == 2    \* MAX_STEP ranges over 1..MaxStepBound halves

\* random.random() as a percentage in [0, 100)
Draws == {0, 50, 99}
Probabilities == {0, 50, 100}

NumberConfigs ==
    [TYPE : {"int", "float"},
     MIN_VALUE : 0..MaxVal,
     MAX_VALUE : 0..MaxVal,
     HAS_INITIAL : BOOLEAN,
     INITIAL_VALUE : -1..(MaxVal + 1),
     MAX_STEP : 1..MaxStepBound,
     INCREASE_PROBABILITY : {50},
     RESET_PROBABILITY : Probabilities,
     RESTART_ON_BOUNDARIES : BOOLEAN]

\* max(min_value, min(max_value, v))
Clamp(g_min, g_max, v) == Max2(g_min, Min2(g_max, v))

TopicDataNumber_init(c) ==
    [type |-> c.TYPE,
     min_value |-> c.MIN_VALUE,
     max_value |-> c.MAX_VALUE,
     current_value |-> Clamp(c.MIN_VALUE, c.MAX_VALUE,
                             IF c.HAS_INITIAL THEN c.INITIAL_VALUE ELSE c.MIN_VALUE),
     max_step |-> c.MAX_STEP,
     increase_probability |-> c.INCREASE_PROBABILITY,
     reset_probability |-> c.RESET_PROBABILITY,
     restart_on_boundaries |-> c.RESTART_ON_BOUNDARIES,
     has_initial |-> c.HAS_INITIAL,
     initial_value |-> IF c.HAS_INITIAL THEN c.INITIAL_VALUE ELSE 0,
     is_active |-> TRUE]

\* int(round(x)) for x = h halves: Python rounds a tie to the even integer
RoundHalfEven(h) ==
    LET k == h \div 2
    IN  IF h % 2 = 0 THEN k
        ELSE IF k % 2 = 0 THEN k ELSE k + 1

\* the value handed back, in halves
NumberOutput(g) ==
    IF g.type = "int" THEN 2 * RoundHalfEven(g.current_value)
    ELSE g.current_value

\* the boundary branch: restart from the initial value, or stop at the bound
OnBoundary(g, bound) ==
    IF g.restart_on_boundaries /\ g.has_initial THEN g.initial_value ELSE bound

\* generate_value() with the draws r1 (reset), step and r2 (direction)
TopicDataNumber_generate_value(g, r1, step, r2) ==
    LET cur ==
            IF g.has_initial /\ r1 < g.reset_probability
            THEN Clamp(g.min_value, g.max_value, g.initial_value)
            ELSE IF r2 < g.increase_probability
                 THEN IF g.current_value + step > g.max_value
                      THEN OnBoundary(g, g.max_value)
                      ELSE g.current_value + step
                 ELSE IF g.current_value - step < g.min_value
                      THEN OnBoundary(g, g.min_value)
                      ELSE g.current_value - step
        g2 == [g EXCEPT !.current_value = cur]
    IN  [g |-> g2, ret |-> NumberOutput(g2)]

IdleNumber == num = 0 /\ num_ret = <<>>

NumberGenerate ==
    /\ \E r1 \in Draws, r2 \in Draws, step \in 0..num.max_step :
          LET res == TopicDataNumber_generate_value(num, r1, step, r2)
          IN  num' = res.g /\ num_ret' = <<res.ret>>
    /\ UNCHANGED not_num_vars

(***************************************************************************)
(* TopicDataRawValue                                                       *)
(***************************************************************************)
MaxLen == 2      \* longest VALUES list
MaxCalls == 5    \* generate_value() calls followed per playlist

Literals == {Scalar(1), Dict({<<"b", 2>>}), Dict({<<"a", 1>>})}
Defaults == {None, Scalar(7), Dict({<<"a", 0>>, <<"c", 3>>})}

SeqsUpTo(S, n) == UNION {[1..k -> S] : k \in 0..n}

RawConfigs ==
    [VALUES : SeqsUpTo(Literals, MaxLen),
     RESTART_ON_END : BOOLEAN,
     VALUE_DEFAULT : Defaults]

TopicDataRawValue_init(c) ==
    [is_active |-> c.VALUES # <<>>,
     values |-> c.VALUES,
     restart_on_end |-> c.RESTART_ON_END,
     value_default |-> c.VALUE_DEFAULT,
     current_index |-> 0]

\* MergedValue with the default updated in place instead of a copy of it
MergedValue_inplace(g, value) ==
    IF value.tag = "dict" /\ g.value_default.tag = "dict"
    THEN LET merged == Dict(DictUpdate(g.value_default.d, value.d))
         IN  [g |-> [g EXCEPT !.value_default = merged], value |-> merged]
    ELSE [g |-> g, value |-> value]

\* the element handed back: a dict element is laid over a copy of a dict default
MergedValue(g, value) ==
    IF value.tag = "dict" /\ g.value_default.tag = "dict"
    THEN [g |-> g, value |-> Dict(DictUpdate(g.value_default.d, value.d))]
    ELSE [g |-> g, value |-> value]

\* generate_value() that wraps at the end whatever RESTART_ON_END says
TopicDataRawValue_generate_value_wrap(g) ==
    IF ~g.is_active \/ g.values = <<>>
    THEN [g |-> g, ret |-> None]
    ELSE LET idx == IF g.current_index >= Len(g.values) THEN 0 ELSE g.current_index
             m == MergedValue(g, g.values[idx + 1])
         IN  [g |-> [m.g EXCEPT !.current_index = idx + 1], ret |-> m.value]

TopicDataRawValue_generate_value(g) ==
    IF ~g.is_active \/ g.values = <<>>
    THEN [g |-> g, ret |-> None]
    ELSE IF g.current_index >= Len(g.values) /\ ~g.restart_on_end
    THEN [g |-> [g EXCEPT !.is_active = FALSE], ret |-> None]
    ELSE LET idx == IF g.current_index >= Len(g.values) THEN 0 ELSE g.current_index
             m == MergedValue(g, g.values[idx + 1])
         IN  [g |-> [m.g EXCEPT !.current_index = idx + 1], ret |-> m.value]

IdleRaw == raw = 0 /\ raw_cfg = 0 /\ raw_hist = <<>>

RawGenerate ==
    /\ Len(raw_hist) < MaxCalls
    /\ LET res == TopicDataRawValue_generate_value(raw)
       IN  raw' = res.g /\ raw_hist' = Append(raw_hist, res.ret)
    /\ UNCHANGED <<raw_cfg, not_raw_vars>>

(***************************************************************************)
(* TopicDataMathExpression.  x moves on a grid of whole units; an          *)
(* expression is one of a few texts, each with what compile() and eval()   *)
(* make of it.                                                             *)
(***************************************************************************)
MaxX == 3        \* INTERVAL_END; INTERVAL_START is 0
MaxDelta == 4    \* MAX_DELTA is taken from 1..MaxDelta; MIN_DELTA is 1
MaxEvals == 4    \* generate_value() calls followed per expression

Expressions == {"x", "str(x)", "1 // (x - 2)", "x if x > 1 else 'low'", "x +"}

\* compile(self.expression, ..., "eval") succeeds
Compiles(expression) == expression # "x +"

\* Python's a // b
FloorDiv(a, b) == IF b > 0 THEN a \div b ELSE (-a) \div (-b)

\* eval(self._compiled_expr, {"math": math}, {"x": self.x}): a number, a value
\* that is no number, or an exception
Eval(expression, x) ==
    IF expression = "x" THEN [value |-> x, outcome |-> "number"]
    ELSE IF expression = "str(x)" THEN [value |-> 0, outcome |-> "other"]
    ELSE IF expression = "1 // (x - 2)"
    THEN IF x = 2 THEN [value |-> 0, outcome |-> "error"]
         ELSE [value |-> FloorDiv(1, x - 2), outcome |-> "number"]
    ELSE IF x > 1 THEN [value |-> x, outcome |-> "number"]
         ELSE [value |-> 0, outcome |-> "other"]

MathConfigs == [MATH_EXPRESSION : Expressions, MAX_DELTA : 1..MaxDelta]

TopicDataMathExpression_init(c) ==
    [is_active |-> Compiles(c.MATH_EXPRESSION),
     expression |-> c.MATH_EXPRESSION,
     x |-> 0,
     compiled |-> Compiles(c.MATH_EXPRESSION)]

\* generate_value(); delta is what random.uniform(min_delta, max_delta) gave.
\* did tells what the call came to: "inactive", or the kind of the result
TopicDataMathExpression_generate_value(g, delta) ==
    IF ~g.is_active \/ ~g.compiled
    THEN [g |-> g, ret |-> None, did |-> "inactive"]
    ELSE LET stepped == g.x + delta
             x1 == IF stepped > MaxX THEN 0 + (stepped - MaxX) ELSE stepped
             result == Eval(g.expression, x1)
             moved == [g EXCEPT !.x = x1]
         IN  IF result.outcome = "number"
             THEN [g |-> moved, ret |-> Scalar(result.value), did |-> "number"]
             ELSE IF result.outcome = "other"
             THEN [g |-> moved, ret |-> None, did |-> "other"]
             ELSE [g |-> [moved EXCEPT !.is_active = FALSE], ret |-> None, did |-> "error"]

IdleMath == mex = 0 /\ mex_cfg = 0 /\ mex_hist = <<>>

MathGenerate ==
    /\ Len(mex_hist) < MaxEvals
    /\ \E delta \in 1..mex_cfg.MAX_DELTA :
           LET res == TopicDataMathExpression_generate_value(mex, delta)
           IN  /\ mex' = res.g
               /\ mex_hist' = Append(mex_hist, [ret |-> res.ret, did |-> res.did])
    /\ UNCHANGED <<mex_cfg, not_math_vars>>

(***************************************************************************)
(* TopicDataBool                                                           *)
(***************************************************************************)
\* b is the outcome of random.choice([True, False])
TopicDataBool_init(b) == [current_value |-> b, is_active |-> TRUE]

TopicDataBool_generate_value(g) ==
    [g |-> [g EXCEPT !.current_value = ~g.current_value],
     ret |-> Bool(~g.current_value)]

(***************************************************************************)
(* Topic: the worker thread of one device                                  *)
(***************************************************************************)
MaxPublish == 4      \* publish calls recorded per device
MaxInFlight == 2     \* publish calls counted as not yet completed
MaxTeardown == 2     \* loop_stop() and disconnect() calls counted per client
TimeInterval == 2    \* TIME_INTERVAL of the devices, in clock ticks

\* the NAME of a generator configuration that has no such key
Absent == "(absent)"

RawData(name, values, restart, retain_probability) ==
    [TYPE |-> "raw_values", MAX_STEP |-> None, VALUES |-> values, RESTART_ON_END |-> restart,
     VALUE_DEFAULT |-> None, NAME |-> name, RETAIN_PROBABILITY |-> retain_probability]

BoolData(name) ==
    [TYPE |-> "bool", MAX_STEP |-> None, VALUES |-> <<>>, RESTART_ON_END |-> FALSE,
     VALUE_DEFAULT |-> None, NAME |-> name, RETAIN_PROBABILITY |-> 0]

UnknownData(name) ==
    [TYPE |-> "text", MAX_STEP |-> None, VALUES |-> <<>>, RESTART_ON_END |-> FALSE,
     VALUE_DEFAULT |-> None, NAME |-> name, RETAIN_PROBABILITY |-> 0]

\* an int generator with MIN_VALUE = MAX_VALUE = 1 and no INITIAL_VALUE; its
\* MAX_STEP is a number or, by a mistake of the configuration, a str
NumberData(name, max_step) ==
    [TYPE |-> "int", MAX_STEP |-> max_step, VALUES |-> <<>>, RESTART_ON_END |-> FALSE,
     VALUE_DEFAULT |-> None, NAME |-> name, RETAIN_PROBABILITY |-> 0]

Device(data, root, retain) ==
    [DATA |-> data, PAYLOAD_ROOT |-> root, RETAIN |-> retain, QOS |-> 1,
     TIME_INTERVAL |-> TimeInterval]

StaticRoot == {<<"id", Scalar(9)>>}

\* the device of three literals, restart disabled, no static fragment
PlaylistDevice ==
    Device(<<RawData("v", <<Scalar(1), Scalar(2), Scalar(3)>>, FALSE, 0)>>, {}, FALSE)

DeviceConfigs ==
    { PlaylistDevice,
      Device(<<RawData("v", <<Scalar(1)>>, TRUE, 50)>>, {}, FALSE),
      Device(<<RawData("v", <<Scalar(1), Scalar(2)>>, FALSE, 0)>>, StaticRoot, FALSE),
      Device(<<RawData("v", <<Scalar(1)>>, FALSE, 0), BoolData("on")>>, {}, FALSE),
      Device(<<RawData("v", <<Scalar(1)>>, FALSE, 0),
               RawData("id", <<Scalar(1), Scalar(2)>>, FALSE, 100)>>, {}, FALSE),
      Device(<<UnknownData("u")>>, {}, FALSE),
      Device(<<NumberData("n", Text), UnknownData("u"),
               RawData("v", <<Scalar(1), Scalar(2)>>, FALSE, 0), BoolData(Absent),
               NumberData("m", Scalar(1))>>, {}, FALSE),
      Device(<<>>, StaticRoot, TRUE) }

KnownTypes == {"bool", "int", "raw_values"}

\* one generator instance; b is the start value a bool generator draws
LoadGenerator(c, b) ==
    [type |-> c.TYPE, name |-> c.NAME, retain_probability |-> c.RETAIN_PROBABILITY,
     obj |-> IF c.TYPE = "raw_values" THEN TopicDataRawValue_init(c)
             ELSE IF c.TYPE = "int"
             THEN [current_value |-> 1, max_step |-> c.MAX_STEP, is_active |-> TRUE]
             ELSE TopicDataBool_init(b)]

\* a loader that gives up the rest of the list at the first configuration it
\* cannot construct a generator from
load_topic_data_stop(configs, b) ==
    LET bad == {k \in 1..Len(configs) :
                   configs[k].TYPE \notin KnownTypes \/ configs[k].NAME = Absent}
        n == IF bad = {} THEN Len(configs)
             ELSE (CHOOSE k \in bad : \A j \in bad : k <= j) - 1
    IN  [k \in 1..n |-> LoadGenerator(configs[k], b)]

\* _load_topic_data(): a configuration of an unknown TYPE is passed over with
\* a warning, one without NAME raises KeyError in TopicDataBase.__init__ and
\* is passed over by the handler
RECURSIVE load_topic_data(_, _)
load_topic_data(configs, b) ==
    IF configs = <<>> THEN <<>>
    ELSE IF Head(configs).TYPE \in KnownTypes /\ Head(configs).NAME # Absent
         THEN <<LoadGenerator(Head(configs), b)>> \o load_topic_data(Tail(configs), b)
         ELSE load_topic_data(Tail(configs), b)

\* data_gen.generate_value(); raised tells that it raised an exception.  The
\* int generator raises in random.uniform(0, self.max_step) when max_step is
\* no number; with MIN_VALUE = MAX_VALUE its value is that bound after any step
generate_value(gen) ==
    IF gen.type = "int"
    THEN [ret |-> IF gen.obj.max_step.tag = "scalar" THEN Scalar(gen.obj.current_value)
                  ELSE None,
          gen |-> gen,
          raised |-> gen.obj.max_step.tag # "scalar"]
    ELSE LET res == IF gen.type = "raw_values"
                    THEN TopicDataRawValue_generate_value(gen.obj)
                    ELSE TopicDataBool_generate_value(gen.obj)
         IN  [ret |-> res.ret, gen |-> [gen EXCEPT !.obj = res.g], raised |-> FALSE]

\* payload[key] = value
DictSet(payload, key, value) == {p \in payload : p[1] # key} \cup {<<key, value>>}

\* an except branch that deactivates every generator of the device
OnGeneratorError_all(data, i) ==
    [k \in 1..Len(data) |-> [data[k] EXCEPT !.obj.is_active = FALSE]]

\* _generate_payload(): except Exception: data_gen.is_active = False
OnGeneratorError(data, i) == [data EXCEPT ![i].obj.is_active = FALSE]

\* the loop of _generate_payload over the generators from the i-th on
RECURSIVE GeneratorLoop(_, _, _, _)
GeneratorLoop(data, i, payload, active_generators_count) ==
    IF i > Len(data)
    THEN [topic_data |-> data, payload |-> payload,
          active_generators_count |-> active_generators_count]
    ELSE IF data[i].obj.is_active
         THEN LET res == generate_value(data[i])
              IN  IF res.raised
                  THEN GeneratorLoop(OnGeneratorError(data, i), i + 1, payload,
                                     active_generators_count + 1)
                  ELSE GeneratorLoop([data EXCEPT ![i] = res.gen], i + 1,
                                     IF res.ret # None
                                     THEN DictSet(payload, data[i].name, res.ret)
                                     ELSE payload,
                                     active_generators_count + 1)
         ELSE GeneratorLoop(data, i + 1, payload, active_generators_count)

\* a _generate_payload() that gives None with no active generator whatever
\* the static payload is
generate_payload_no_root(data, root) ==
    LET r == GeneratorLoop(data, 1, root, 0)
    IN  [topic_data |-> r.topic_data,
         payload |-> r.payload,
         is_none |-> (r.active_generators_count = 0)]

\* _generate_payload(): is_none stands for the None that ends the thread
generate_payload(data, root) ==
    LET r == GeneratorLoop(data, 1, root, 0)
    IN  [topic_data |-> r.topic_data,
         payload |-> r.payload,
         is_none |-> (r.active_generators_count = 0 /\ root = {})]

\* a retain flag that asks the generators that are no longer active as well
RetainMessage_inactive_too(default_retain, data, draws) ==
    \/ default_retain
    \/ \E i \in 1..Len(data) : draws[i] < data[i].retain_probability

\* the retain flag of one message; draws[i] is the draw of should_retain()
\* of the i-th generator
RetainMessage(default_retain, data, draws) ==
    \/ default_retain
    \/ \E i \in 1..Len(data) :
          data[i].obj.is_active /\ draws[i] < data[i].retain_probability

Callers == {"worker", "main"}

IdleTopic ==
    /\ t_cfg = 0 /\ topic_data = <<>> /\ t_pc = "idle" /\ stop_event = FALSE
    /\ client = "none" /\ conn = "new" /\ loop_running = FALSE
    /\ pending = 0 /\ published = <<>> /\ pub_count = 0 /\ sleep_left = 0
    /\ exit_reason = "" /\ d_pc = 0 /\ d_client = 0 /\ d_was = 0
    /\ pubs_after_stop = 0 /\ conn_failure = "" /\ pubs_after_failure = 0
    /\ in_flight = 0
    /\ loop_stops = 0 /\ disconnects = 0

InitTopic ==
    /\ t_cfg \in DeviceConfigs
    /\ \E b \in BOOLEAN : topic_data = load_topic_data(t_cfg.DATA, b)
    /\ t_pc = "created"
    /\ stop_event = FALSE
    /\ client = "none"
    /\ conn = "new"
    /\ loop_running = FALSE
    /\ pending = [retain |-> FALSE, payload |-> {}, qos |-> 0]
    /\ published = <<>>
    /\ pub_count = 0
    /\ sleep_left = 0
    /\ exit_reason = ""
    /\ d_pc = [c \in Callers |-> "idle"]
    /\ d_client = [c \in Callers |-> "none"]
    /\ d_was = [c \in Callers |-> FALSE]
    /\ pubs_after_stop = 0
    /\ conn_failure = ""
    /\ pubs_after_failure = 0
    /\ in_flight = 0
    /\ loop_stops = 0 /\ disconnects = 0

\* Thread.is_alive()
IsAlive == t_pc \notin {"created", "done"}

\* Simulator.run(): topic.start()
Start ==
    /\ t_pc = "created"
    /\ t_pc' = "connect"
    /\ UNCHANGED <<not_topic_vars, teardown_vars, in_flight, late_vars, t_cfg, topic_data, stop_event, client, conn, loop_running, pending,
                   published, pub_count, sleep_left, exit_reason, d_pc, d_client, d_was>>

\* _connect(): the client object is created and its callbacks are set
ConnectCreate ==
    /\ t_pc = "connect"
    /\ client' = "obj"
    /\ conn' = "new"
    /\ t_pc' = "connect_call"
    /\ UNCHANGED <<not_topic_vars, teardown_vars, in_flight, late_vars, t_cfg, topic_data, stop_event, loop_running, pending,
                   published, pub_count, sleep_left, exit_reason, d_pc, d_client, d_was>>

\* _connect(): client.connect() and loop_start() return
ConnectOk ==
    /\ t_pc = "connect_call"
    /\ client = "obj"
    /\ conn' = "connecting"
    /\ loop_running' = TRUE
    /\ t_pc' = "check_stop"
    /\ UNCHANGED <<not_topic_vars, teardown_vars, in_flight, late_vars, t_cfg, topic_data, stop_event, client, pending,
                   published, pub_count, sleep_left, exit_reason, d_pc, d_client, d_was>>

\* a failed _connect() that is tried again
ConnectFail_retry ==
    /\ t_pc = "connect_call"
    /\ client' = "none"
    /\ t_pc' = "connect"
    /\ conn_failure' = "connect_failed"
    /\ UNCHANGED <<not_topic_vars, teardown_vars, in_flight, pubs_after_stop, pubs_after_failure, t_cfg, topic_data,
                   stop_event, conn, loop_running, pending, published, pub_count,
                   sleep_left, exit_reason, d_pc, d_client, d_was>>

\* _connect(): an exception; run() returns without entering its loop
ConnectFail ==
    /\ t_pc = "connect_call"
    /\ client' = "none"
    /\ t_pc' = "done"
    /\ exit_reason' = "connect_failed"
    /\ conn_failure' = "connect_failed"
    /\ UNCHANGED <<not_topic_vars, teardown_vars, in_flight, pubs_after_stop, pubs_after_failure, t_cfg, topic_data, stop_event, conn, loop_running, pending,
                   published, pub_count, sleep_left, d_pc, d_client, d_was>>

\* run() leaves its loop and calls self.disconnect()
LeaveLoop(reason) ==
    /\ t_pc' = "disconnect"
    /\ exit_reason' = reason
    /\ d_pc' = [d_pc EXCEPT !["worker"] = "set"]

\* a loop that does not test the stop event
CheckStop_no_test ==
    /\ t_pc = "check_stop"
    /\ t_pc' = "check_client"
    /\ UNCHANGED <<not_topic_vars, teardown_vars, in_flight, late_vars, t_cfg, topic_data, stop_event, client, conn,
                   loop_running, pending, published, pub_count, sleep_left, exit_reason,
                   d_pc, d_client, d_was>>

\* while not self._stop_event.is_set()
CheckStop ==
    /\ t_pc = "check_stop"
    /\ IF stop_event
       THEN LeaveLoop("stop")
       ELSE t_pc' = "check_client" /\ UNCHANGED <<exit_reason, d_pc>>
    /\ UNCHANGED <<not_topic_vars, teardown_vars, in_flight, late_vars, t_cfg, topic_data, stop_event, client, conn, loop_running, pending,
                   published, pub_count, sleep_left, d_client, d_was>>

\* if not self.client
CheckClient ==
    /\ t_pc = "check_client"
    /\ IF client = "none"
       THEN LeaveLoop("client_none")
       ELSE t_pc' = "check_conn" /\ UNCHANGED <<exit_reason, d_pc>>
    /\ UNCHANGED <<not_topic_vars, teardown_vars, in_flight, late_vars, t_cfg, topic_data, stop_event, client, conn, loop_running, pending,
                   published, pub_count, sleep_left, d_client, d_was>>

\* a loop top that goes on to the payload whatever is_connected() says
CheckConnected_skip ==
    /\ t_pc = "check_conn"
    /\ IF client = "none"
       THEN LeaveLoop("check_failed")
       ELSE t_pc' = "generate" /\ UNCHANGED <<exit_reason, d_pc>>
    /\ UNCHANGED <<not_topic_vars, teardown_vars, in_flight, late_vars, t_cfg, topic_data, stop_event, client, conn, loop_running, pending,
                   published, pub_count, sleep_left, d_client, d_was>>

\* if not self.client.is_connected(); a client gone since the last check
\* raises, which ends the loop as well
CheckConnected ==
    /\ t_pc = "check_conn"
    /\ IF client = "none"
       THEN LeaveLoop("check_failed")
       ELSE IF conn # "connected"
       THEN LeaveLoop("not_connected")
       ELSE t_pc' = "generate" /\ UNCHANGED <<exit_reason, d_pc>>
    /\ UNCHANGED <<not_topic_vars, teardown_vars, in_flight, late_vars, t_cfg, topic_data, stop_event, client, conn, loop_running, pending,
                   published, pub_count, sleep_left, d_client, d_was>>

\* _generate_payload(), the None check and the retain flag
Generate ==
    /\ t_pc = "generate"
    /\ LET res == generate_payload(topic_data, t_cfg.PAYLOAD_ROOT)
       IN  /\ topic_data' = res.topic_data
           /\ IF res.is_none
              THEN LeaveLoop("no_data") /\ UNCHANGED pending
              ELSE /\ \E draws \in [1..Len(topic_data) -> Draws] :
                         pending' = [retain |-> RetainMessage(t_cfg.RETAIN,
                                                              res.topic_data, draws),
                                     payload |-> res.payload,
                                     qos |-> t_cfg.QOS]
                   /\ t_pc' = "publish"
                   /\ UNCHANGED <<exit_reason, d_pc>>
    /\ UNCHANGED <<not_topic_vars, teardown_vars, in_flight, late_vars, t_cfg, stop_event, client, conn, loop_running,
                   published, pub_count, sleep_left, d_client, d_was>>

\* self.client.publish(..); with the client gone the AttributeError ends the loop
Publish ==
    /\ t_pc = "publish"
    /\ IF client = "none"
       THEN /\ LeaveLoop("error")
            /\ UNCHANGED <<published, pub_count, sleep_left, pubs_after_stop,
                           pubs_after_failure, in_flight>>
       ELSE /\ in_flight' = Min2(in_flight + 1, MaxInFlight)
            /\ pubs_after_stop' = IF stop_event THEN Min2(pubs_after_stop + 1, 2)
                                  ELSE pubs_after_stop
            /\ pubs_after_failure' = IF conn_failure # ""
                                     THEN Min2(pubs_after_failure + 1, 2)
                                     ELSE pubs_after_failure
            /\ published' = IF Len(published) < MaxPublish
                            THEN Append(published, pending) ELSE published
            /\ pub_count' = IF pub_count < MaxPublish THEN pub_count + 1 ELSE pub_count
            /\ sleep_left' = t_cfg.TIME_INTERVAL
            /\ t_pc' = "wait"
            /\ UNCHANGED <<exit_reason, d_pc>>
    /\ UNCHANGED <<not_topic_vars, teardown_vars, conn_failure, t_cfg, topic_data, stop_event, client, conn,
                   loop_running, pending, d_client, d_was>>

\* self.client.publish(..) raises (a topic or payload the client rejects)
PublishRaises ==
    /\ t_pc = "publish"
    /\ client = "obj"
    /\ LeaveLoop("error")
    /\ UNCHANGED <<not_topic_vars, teardown_vars, in_flight, late_vars, t_cfg, topic_data, stop_event, client, conn, loop_running, pending,
                   published, pub_count, sleep_left, d_client, d_was>>

\* _stop_event.wait(time_interval) with the interval elapsed only
WaitReturn_sleep ==
    /\ t_pc = "wait"
    /\ sleep_left = 0
    /\ t_pc' = "check_stop"
    /\ UNCHANGED <<not_topic_vars, teardown_vars, in_flight, late_vars, t_cfg, topic_data, stop_event, client, conn, loop_running, pending,
                   published, pub_count, sleep_left, exit_reason, d_pc, d_client, d_was>>

\* _stop_event.wait(time_interval) returns: the event is set or the interval
\* has elapsed
WaitReturn ==
    /\ t_pc = "wait"
    /\ stop_event \/ sleep_left = 0
    /\ t_pc' = "check_stop"
    /\ UNCHANGED <<not_topic_vars, teardown_vars, in_flight, late_vars, t_cfg, topic_data, stop_event, client, conn, loop_running, pending,
                   published, pub_count, sleep_left, exit_reason, d_pc, d_client, d_was>>

\* time passes while the worker waits
Tick ==
    /\ t_pc = "wait"
    /\ sleep_left > 0
    /\ sleep_left' = sleep_left - 1
    /\ UNCHANGED <<not_topic_vars, teardown_vars, in_flight, late_vars, t_cfg, topic_data, t_pc, stop_event, client, conn, loop_running,
                   pending, published, pub_count, exit_reason, d_pc, d_client, d_was>>

\* disconnect() returns to its caller; for the worker run() ends
Return(c) ==
    /\ d_pc' = [d_pc EXCEPT ![c] = IF c = "main" THEN "returned" ELSE "idle"]
    /\ t_pc' = IF c = "worker" THEN "done" ELSE t_pc

\* disconnect(): if not self._stop_event.is_set(): self._stop_event.set()
DisconnectSet(c) ==
    /\ d_pc[c] = "set"
    /\ stop_event' = TRUE
    /\ d_pc' = [d_pc EXCEPT ![c] = "read"]
    /\ UNCHANGED <<not_topic_vars, teardown_vars, in_flight, late_vars, t_cfg, topic_data, t_pc, client, conn, loop_running, pending,
                   published, pub_count, sleep_left, exit_reason, d_client, d_was>>

\* disconnect(): client_instance = self.client; if client_instance
DisconnectRead(c) ==
    /\ d_pc[c] = "read"
    /\ d_client' = [d_client EXCEPT ![c] = client]
    /\ IF client = "none"
       THEN Return(c)
       ELSE d_pc' = [d_pc EXCEPT ![c] = "is_connected"] /\ UNCHANGED t_pc
    /\ UNCHANGED <<not_topic_vars, teardown_vars, in_flight, late_vars, t_cfg, topic_data, stop_event, client, conn, loop_running, pending,
                   published, pub_count, sleep_left, exit_reason, d_was>>

\* disconnect(): client_was_connected = client_instance.is_connected()
DisconnectIsConnected(c) ==
    /\ d_pc[c] = "is_connected"
    /\ d_was' = [d_was EXCEPT ![c] = (conn = "connected")]
    /\ d_pc' = [d_pc EXCEPT ![c] = "loop_stop"]
    /\ UNCHANGED <<not_topic_vars, teardown_vars, in_flight, late_vars, t_cfg, topic_data, t_pc, stop_event, client, conn, loop_running,
                   pending, published, pub_count, sleep_left, exit_reason, d_client>>

\* disconnect(): client_instance.loop_stop()
DisconnectLoopStop(c) ==
    /\ d_pc[c] = "loop_stop"
    /\ loop_running' = FALSE
    /\ loop_stops' = Min2(loop_stops + 1, MaxTeardown)
    /\ d_pc' = [d_pc EXCEPT ![c] = IF d_was[c] THEN "disconnect" ELSE "clear"]
    /\ UNCHANGED <<not_topic_vars, disconnects, in_flight, late_vars, t_cfg, topic_data, t_pc, stop_event, client, conn, pending,
                   published, pub_count, sleep_left, exit_reason, d_client, d_was>>

\* disconnect(): client_instance.disconnect()
DisconnectSend(c) ==
    /\ d_pc[c] = "disconnect"
    /\ conn' = "disconnected"
    /\ disconnects' = Min2(disconnects + 1, MaxTeardown)
    /\ d_pc' = [d_pc EXCEPT ![c] = "clear"]
    /\ UNCHANGED <<not_topic_vars, loop_stops, in_flight, late_vars, t_cfg, topic_data, t_pc, stop_event, client, loop_running, pending,
                   published, pub_count, sleep_left, exit_reason, d_client, d_was>>

\* disconnect(): finally: self.client = None
DisconnectClear(c) ==
    /\ d_pc[c] = "clear"
    /\ client' = "none"
    /\ Return(c)
    /\ UNCHANGED <<not_topic_vars, teardown_vars, in_flight, late_vars, t_cfg, topic_data, stop_event, conn, loop_running, pending,
                   published, pub_count, sleep_left, exit_reason, d_client, d_was>>

\* Simulator.stop(): topic.disconnect() for a topic that is alive
StopRequest ==
    /\ d_pc["main"] = "idle"
    /\ IsAlive
    /\ d_pc' = [d_pc EXCEPT !["main"] = "set"]
    /\ UNCHANGED <<not_topic_vars, teardown_vars, in_flight, late_vars, t_cfg, topic_data, t_pc, stop_event, client, conn, loop_running,
                   pending, published, pub_count, sleep_left, exit_reason, d_client, d_was>>

\* an _on_connect(rc) that clears the stop event when the broker accepts
OnConnect_clears(rc) ==
    /\ loop_running
    /\ conn = "connecting"
    /\ conn' = IF rc = 0 THEN "connected" ELSE "refused"
    /\ stop_event' = (rc # 0)
    /\ conn_failure' = IF rc = 0 THEN conn_failure ELSE "refused"
    /\ UNCHANGED <<not_topic_vars, teardown_vars, in_flight, pubs_after_stop, pubs_after_failure, t_cfg, topic_data, t_pc, client, loop_running, pending, published,
                   pub_count, sleep_left, exit_reason, d_pc, d_client, d_was>>

\* _on_connect(rc) on the network thread: the broker's answer to CONNECT
OnConnect(rc) ==
    /\ loop_running
    /\ conn = "connecting"
    /\ conn' = IF rc = 0 THEN "connected" ELSE "refused"
    /\ stop_event' = (stop_event \/ rc # 0)
    /\ conn_failure' = IF rc = 0 THEN conn_failure ELSE "refused"
    /\ UNCHANGED <<not_topic_vars, teardown_vars, in_flight, pubs_after_stop, pubs_after_failure, t_cfg, topic_data, t_pc, client, loop_running, pending, published,
                   pub_count, sleep_left, exit_reason, d_pc, d_client, d_was>>

\* _on_disconnect(rc) with rc # 0 on the network thread: the connection is lost
OnDisconnect ==
    /\ loop_running
    /\ conn = "connected"
    /\ conn' = "lost"
    /\ stop_event' = TRUE
    /\ conn_failure' = "lost"
    /\ UNCHANGED <<not_topic_vars, teardown_vars, in_flight, pubs_after_stop, pubs_after_failure, t_cfg, topic_data, t_pc, client, loop_running, pending, published,
                   pub_count, sleep_left, exit_reason, d_pc, d_client, d_was>>

\* _on_publish(mid) on the network thread: the client has completed a
\* publish (sent it for QoS 0, received its acknowledgement for QoS 1)
OnPublish ==
    /\ loop_running
    /\ conn = "connected"
    /\ in_flight > 0
    /\ in_flight' = in_flight - 1
    /\ UNCHANGED <<not_topic_vars, teardown_vars, late_vars, t_cfg, topic_data, t_pc, stop_event, client,
                   conn, loop_running, pending, published, pub_count, sleep_left,
                   exit_reason, d_pc, d_client, d_was>>

\* the steps of the worker thread
WorkerStep ==
    \/ ConnectCreate \/ ConnectOk \/ ConnectFail
    \/ CheckStop \/ CheckClient \/ CheckConnected
    \/ Generate \/ Publish \/ PublishRaises \/ WaitReturn
    \/ DisconnectSet("worker") \/ DisconnectRead("worker")
    \/ DisconnectIsConnected("worker") \/ DisconnectLoopStop("worker")
    \/ DisconnectSend("worker") \/ DisconnectClear("worker")

\* the steps of the thread that calls Simulator.stop()
MainStep ==
    \/ StopRequest
    \/ DisconnectSet("main") \/ DisconnectRead("main")
    \/ DisconnectIsConnected("main") \/ DisconnectLoopStop("main")
    \/ DisconnectSend("main") \/ DisconnectClear("main")

\* the broker, seen through the callbacks of the network thread
BrokerStep == OnConnect(0) \/ OnConnect(5) \/ OnDisconnect

NextTopic == Start \/ WorkerStep \/ MainStep \/ BrokerStep \/ Tick

(***************************************************************************)
(* MQTTCommandListener                                                     *)
(***************************************************************************)
MaxMessages == 2     \* inbound messages followed

\* strings are sequences of code points, payloads sequences of bytes
trigger_command == <<71, 70>>            \* "GF"
flag_response == <<70, 76>>              \* "FL"
flag_response_topic == "flag"
command_target_topics == {"cmd/a", "cmd/b"}

InboundTopics == {"cmd/a", "other"}
InboundPayloads ==
    { <<71, 70>>,        \* the trigger
      <<71, 255>>,       \* not UTF-8
      <<103, 102>>,      \* the trigger in lower case
      <<71, 70, 32>>,    \* the trigger and a blank
      <<195, 137, 70>> } \* a two-byte character: valid UTF-8

\* bytes.decode("utf-8") for bytes below 224 and the byte 255: ok is FALSE for
\* a UnicodeDecodeError
RECURSIVE Utf8Decode(_)
Utf8Decode(b) ==
    IF b = <<>> THEN [s |-> <<>>, ok |-> TRUE]
    ELSE IF b[1] < 128
    THEN LET rest == Utf8Decode(Tail(b))
         IN  [s |-> <<b[1]>> \o rest.s, ok |-> rest.ok]
    ELSE IF b[1] >= 194 /\ b[1] <= 223 /\ Len(b) >= 2 /\ b[2] >= 128 /\ b[2] <= 191
    THEN LET rest == Utf8Decode(Tail(Tail(b)))
         IN  [s |-> <<(b[1] - 192) * 64 + (b[2] - 128)>> \o rest.s, ok |-> rest.ok]
    ELSE [s |-> <<>>, ok |-> FALSE]

\* str.encode("utf-8") for code points below 2048
RECURSIVE Utf8Encode(_)
Utf8Encode(s) ==
    IF s = <<>> THEN <<>>
    ELSE IF s[1] < 128 THEN <<s[1]>> \o Utf8Encode(Tail(s))
    ELSE <<192 + (s[1] \div 64), 128 + (s[1] % 64)>> \o Utf8Encode(Tail(s))

\* the test of _on_message with the topic test left out
IsCommand_any_topic(topic, payload) == payload = trigger_command

\* topic in self.command_target_topics and payload == self.trigger_command
IsCommand(topic, payload) ==
    topic \in command_target_topics /\ payload = trigger_command

FlagPublish ==
    [retain |-> FALSE, payload |-> flag_response, qos |-> 1, topic |-> flag_response_topic]

\* _on_message without the handler of UnicodeDecodeError
on_message_no_handler(msg, cl, pubs) ==
    LET dec == Utf8Decode(msg.payload)
    IN  IF ~dec.ok THEN [published |-> pubs, raised |-> TRUE]
        ELSE IF IsCommand(msg.topic, dec.s) /\ cl = "obj"
        THEN [published |-> Append(pubs, FlagPublish), raised |-> FALSE]
        ELSE [published |-> pubs, raised |-> FALSE]

\* _on_message(msg) with self.client = cl and the publish calls made so far:
\* the publish calls afterwards, and whether an exception leaves the callback
on_message(msg, cl, pubs) ==
    LET dec == Utf8Decode(msg.payload)
    IN  IF ~dec.ok THEN [published |-> pubs, raised |-> FALSE]
        ELSE IF IsCommand(msg.topic, dec.s) /\ cl = "obj"
        THEN [published |-> Append(pubs, FlagPublish), raised |-> FALSE]
        ELSE [published |-> pubs, raised |-> FALSE]

IdleListener ==
    /\ l_pc = "idle" /\ l_stop = FALSE /\ l_subscribed = FALSE /\ l_client = "none"
    /\ l_conn = "new" /\ l_loop = FALSE /\ l_inbox = <<>> /\ l_published = <<>>

InitListener ==
    /\ l_pc = "created"
    /\ l_stop = FALSE
    /\ l_subscribed = FALSE
    /\ l_client = "none"
    /\ l_conn = "new"
    /\ l_loop = FALSE
    /\ l_inbox = <<>>
    /\ l_published = <<>>

\* listener.start()
ListenerStart ==
    /\ l_pc = "created"
    /\ l_pc' = "connect"
    /\ UNCHANGED <<not_listener_vars, l_stop, l_subscribed, l_client, l_conn, l_loop,
                   l_inbox, l_published>>

\* _connect(): the client is created, connect() and loop_start() return
ListenerConnectOk ==
    /\ l_pc = "connect"
    /\ l_client' = "obj"
    /\ l_conn' = "connecting"
    /\ l_loop' = TRUE
    /\ l_pc' = "wait"
    /\ UNCHANGED <<not_listener_vars, l_stop, l_subscribed, l_inbox, l_published>>

\* _connect(): an exception; run() returns
ListenerConnectFail ==
    /\ l_pc = "connect"
    /\ l_client' = "none"
    /\ l_pc' = "done"
    /\ UNCHANGED <<not_listener_vars, l_stop, l_subscribed, l_conn, l_loop,
                   l_inbox, l_published>>

\* run(): self._stop_event.wait() returns; disconnect() is entered, which
\* finds the event set
ListenerWake ==
    /\ l_pc = "wait"
    /\ l_stop
    /\ l_pc' = "read"
    /\ UNCHANGED <<not_listener_vars, l_stop, l_subscribed, l_client, l_conn, l_loop,
                   l_inbox, l_published>>

\* disconnect(): client_instance = self.client; loop_stop()
ListenerLoopStop ==
    /\ l_pc = "read"
    /\ IF l_client = "none"
       THEN l_pc' = "done" /\ UNCHANGED l_loop
       ELSE l_pc' = "disconnect" /\ l_loop' = FALSE
    /\ UNCHANGED <<not_listener_vars, l_stop, l_subscribed, l_client, l_conn,
                   l_inbox, l_published>>

\* disconnect(): client_instance.disconnect(); finally: self.client = None
ListenerDisconnect ==
    /\ l_pc = "disconnect"
    /\ l_conn' = "disconnected"
    /\ l_client' = "none"
    /\ l_pc' = "done"
    /\ UNCHANGED <<not_listener_vars, l_stop, l_subscribed, l_loop, l_inbox, l_published>>

\* _on_connect(rc); ok is whether client.subscribe() reports success
ListenerOnConnect(rc, ok) ==
    /\ l_loop
    /\ l_conn = "connecting"
    /\ IF rc = 0
       THEN l_conn' = "connected" /\ l_subscribed' = ok /\ UNCHANGED l_stop
       ELSE l_conn' = "refused" /\ l_subscribed' = FALSE /\ l_stop' = TRUE
    /\ UNCHANGED <<not_listener_vars, l_pc, l_client, l_loop, l_inbox, l_published>>

\* _on_message(msg) on the network thread; an exception that leaves the
\* callback ends the network thread
ListenerOnMessage(msg) ==
    /\ l_loop
    /\ l_conn = "connected"
    /\ Len(l_inbox) < MaxMessages
    /\ l_inbox' = Append(l_inbox, msg)
    /\ LET res == on_message(msg, l_client, l_published)
       IN  l_published' = res.published /\ l_loop' = (l_loop /\ ~res.raised)
    /\ UNCHANGED <<not_listener_vars, l_pc, l_stop, l_subscribed, l_client, l_conn>>

\* an _on_disconnect(rc) that leaves the stop event alone
ListenerOnDisconnect_no_stop ==
    /\ l_loop
    /\ l_conn = "connected"
    /\ l_conn' = "lost"
    /\ l_subscribed' = FALSE
    /\ UNCHANGED <<not_listener_vars, l_pc, l_stop, l_client, l_loop, l_inbox, l_published>>

\* _on_disconnect(rc) with rc # 0: the connection is lost
ListenerOnDisconnect ==
    /\ l_loop
    /\ l_conn = "connected"
    /\ l_conn' = "lost"
    /\ l_subscribed' = FALSE
    /\ l_stop' = TRUE
    /\ UNCHANGED <<not_listener_vars, l_pc, l_client, l_loop, l_inbox, l_published>>

NextListener ==
    \/ ListenerStart \/ ListenerConnectOk \/ ListenerConnectFail
    \/ ListenerWake \/ ListenerLoopStop \/ ListenerDisconnect
    \/ \E ok \in BOOLEAN : ListenerOnConnect(0, ok)
    \/ ListenerOnConnect(5, FALSE)
    \/ \E t \in InboundTopics, p \in InboundPayloads :
          ListenerOnMessage([payload |-> p, topic |-> t])
    \/ ListenerOnDisconnect

(***************************************************************************)
(* Simulator.stop().  Time is counted in ticks, TicksPerTenth ticks to the *)
(* tenth of a second.  A worker is a Topic thread seen from the main       *)
(* thread: it is alive until its run() ends, which it does w_delay ticks   *)
(* after its stop event is set, or never.                                  *)
(***************************************************************************)
NumWorkers == 3
TicksPerTenth == 2

shutdown_timeout == 10      \* seconds
Budget == shutdown_timeout * 10 * TicksPerTenth
\* the 0.1 of join(timeout=max(0.1, remaining_time))
MinJoin == TicksPerTenth

Workers == 1..NumWorkers
Dead == -2      \* the thread has ended before stop() is called
Never == -1     \* the thread does not end
Delays == {Dead, Never, 10 * TicksPerTenth, Budget - 1, Budget + 1}
\* what one call of topic.disconnect() takes
SignalTicks == {0, 1}

\* thread.is_alive() at time t
is_alive(w, t) == w_exit[w] = Never \/ t < w_exit[w]

\* [t for t in self.topics if t.is_alive()]
AliveThreads(t) == SelectSeq([i \in 1..NumWorkers |-> i], LAMBDA w : is_alive(w, t))

\* a report made of the join() warnings
remaining_alive_warned(t) == warned

\* the final check: [t.topic_url for t in self.topics if t.is_alive()]
remaining_alive(t) == {w \in Workers : is_alive(w, t)}

IdleStop ==
    /\ s_pc = "off" /\ now = 0 /\ w_delay = <<>> /\ w_exit = <<>> /\ signalled = {}
    /\ active_topics = <<>> /\ sig_i = 0 /\ start_time = 0 /\ threads_to_join = <<>>
    /\ join_deadline = 0 /\ warned = {} /\ reported = {}

InitStop ==
    /\ s_pc = "idle"
    /\ now = 0
    /\ w_delay \in [Workers -> Delays]
    /\ w_exit = [w \in Workers |-> IF w_delay[w] = Dead THEN 0 ELSE Never]
    /\ signalled = {}
    /\ active_topics = <<>>
    /\ sig_i = 0
    /\ start_time = 0
    /\ threads_to_join = <<>>
    /\ join_deadline = 0
    /\ warned = {}
    /\ reported = {}

\* stop(): active_topics = [t for t in self.topics if t.is_alive()]
StopEnter ==
    /\ s_pc = "idle"
    /\ active_topics' = AliveThreads(now)
    /\ sig_i' = 1
    /\ s_pc' = "signal"
    /\ UNCHANGED <<not_stop_vars, now, w_delay, w_exit, signalled, start_time,
                   threads_to_join, join_deadline, warned, reported>>

\* stop(): topic.disconnect() for the next of active_topics; the stop event is
\* set first, the call returns d ticks later
StopSignal(d) ==
    /\ s_pc = "signal"
    /\ sig_i <= Len(active_topics)
    /\ LET w == active_topics[sig_i]
       IN  /\ signalled' = signalled \cup {w}
           /\ w_exit' = [w_exit EXCEPT ![w] = IF w_delay[w] = Never THEN Never
                                              ELSE now + w_delay[w]]
    /\ now' = now + d
    /\ sig_i' = sig_i + 1
    /\ UNCHANGED <<not_stop_vars, s_pc, w_delay, active_topics, start_time,
                   threads_to_join, join_deadline, warned, reported>>

\* a stop() that turns to its joins after the first disconnect() call
StopStartWait_early ==
    /\ s_pc = "signal"
    /\ sig_i > Min2(1, Len(active_topics))
    /\ start_time' = now
    /\ threads_to_join' = AliveThreads(now)
    /\ s_pc' = "loop"
    /\ UNCHANGED <<not_stop_vars, now, w_delay, w_exit, signalled, active_topics, sig_i,
                   join_deadline, warned, reported>>

\* stop(): start_time = time.time(); threads_to_join = [... if t.is_alive()]
StopStartWait ==
    /\ s_pc = "signal"
    /\ sig_i > Len(active_topics)
    /\ start_time' = now
    /\ threads_to_join' = AliveThreads(now)
    /\ s_pc' = "loop"
    /\ UNCHANGED <<not_stop_vars, now, w_delay, w_exit, signalled, active_topics, sig_i,
                   join_deadline, warned, reported>>

\* stop(): the top of the while loop up to the call of thread.join()
StopLoopTop ==
    /\ s_pc = "loop"
    /\ LET remaining_time == Budget - (now - start_time)
       IN  IF threads_to_join = <<>> \/ remaining_time <= 0
           THEN s_pc' = "final" /\ UNCHANGED join_deadline
           ELSE s_pc' = "join" /\ join_deadline' = now + Max2(MinJoin, remaining_time)
    /\ UNCHANGED <<not_stop_vars, now, w_delay, w_exit, signalled, active_topics, sig_i,
                   start_time, threads_to_join, warned, reported>>

\* stop(): thread.join(timeout) returns, when the thread has ended or at the
\* deadline; the thread is popped either way
StopJoinReturn ==
    /\ s_pc = "join"
    /\ LET thread == Head(threads_to_join)
           t == IF is_alive(thread, join_deadline) THEN join_deadline
                ELSE Max2(now, w_exit[thread])
       IN  /\ now' = t
           /\ warned' = IF is_alive(thread, t) THEN warned \cup {thread} ELSE warned
    /\ threads_to_join' = Tail(threads_to_join)
    /\ s_pc' = "loop"
    /\ UNCHANGED <<not_stop_vars, w_delay, w_exit, signalled, active_topics, sig_i,
                   start_time, join_deadline, reported>>

\* stop(): the final check, and the return
StopFinalCheck ==
    /\ s_pc = "final"
    /\ reported' = remaining_alive(now)
    /\ s_pc' = "returned"
    /\ UNCHANGED <<not_stop_vars, now, w_delay, w_exit, signalled, active_topics, sig_i,
                   start_time, threads_to_join, join_deadline, warned>>

NextStop ==
    \/ StopEnter
    \/ \E d \in SignalTicks : StopSignal(d)
    \/ StopStartWait
    \/ StopLoopTop
    \/ StopJoinReturn
    \/ StopFinalCheck

(***************************************************************************)
(* Simulator._load_config().  Text is a sequence of characters; a          *)
(* topic_url is the text that the f-string of the source builds.           *)
(***************************************************************************)
MaxRange == 2      \* RANGE_START and RANGE_END are taken from -1..MaxRange
MaxSpecs == 2      \* entries of TOPICS
BigStart == 9      \* RANGE_START of the entry whose item ids have two digits

RangeVals == -1..MaxRange
Prefix == <<"d", "e", "v">>
DigitChars == <<"0", "1", "2", "3", "4", "5", "6", "7", "8", "9">>

\* str() of a natural number
RECURSIVE Digits(_)
Digits(n) ==
    IF n < 10 THEN <<DigitChars[n + 1]>>
    ELSE Digits(n \div 10) \o <<DigitChars[(n % 10) + 1]>>

\* str() of an integer, as f"{item_id}" formats it
Str(n) == IF n < 0 THEN <<"-">> \o Digits(-n) ELSE Digits(n)

\* one entry of TOPICS; an absent PREFIX is <<>>, an absent TYPE is "".  DATA
\* are its generator configurations, CLIENT its delivery settings as the dict
\* of the keys it has
DeviceSpec(type, prefix, start, end, list, data, root, overrides) ==
    [TYPE |-> type, DATA |-> data, PAYLOAD_ROOT |-> root, PREFIX |-> prefix,
     RANGE_START |-> start, RANGE_END |-> end, LIST |-> list, CLIENT |-> overrides]

\* an entry without generators, with a static payload and no delivery setting
TopicSpec(type, prefix, start, end, list) ==
    DeviceSpec(type, prefix, start, end, list, <<>>, StaticRoot, {})

TopicSpecs ==
    {TopicSpec("single", Prefix, 1, 0, <<>>)}
    \cup {TopicSpec("multiple", Prefix, a, b, <<>>) : a \in RangeVals, b \in RangeVals}
    \cup {TopicSpec("multiple", Prefix, BigStart, BigStart + MaxRange, <<>>)}
    \cup {TopicSpec("list", Prefix, 1, 0, l) : l \in {<<>>, <<3, 1>>}}
    \cup {TopicSpec("other", Prefix, 1, 0, <<>>), TopicSpec("single", <<>>, 1, 0, <<>>),
          TopicSpec("", Prefix, 1, 0, <<>>)}

\* what the settings file holds: nothing readable as JSON ("invalid"), JSON
\* that is no object ("not_object"), or an object with its TOPICS; "missing"
\* is a path that is no file
FleetSettings(kind, specs, defaults) ==
    [CLIENT |-> defaults, kind |-> kind, TOPICS |-> specs]

\* settings without delivery settings at the top level
Settings(kind, specs) == FleetSettings(kind, specs, {})

\* range(start, end): the end itself left out
RangeItems_exclusive(start, end) == [k \in 1..(end - start) |-> start + k - 1]

\* range(start, end + 1), for end >= start
RangeItems(start, end) == [k \in 1..(end - start + 1) |-> start + k - 1]

\* a loop body that goes through the LIST of a list entry from its end
LoadTopic_list_reversed(tc) ==
    IF tc.PREFIX = <<>> THEN <<>>
    ELSE IF tc.TYPE = "" THEN <<>>
    ELSE IF tc.TYPE = "single" THEN <<tc.PREFIX>>
    ELSE IF tc.TYPE = "multiple"
    THEN IF tc.RANGE_END < tc.RANGE_START THEN <<>>
         ELSE LET items == RangeItems(tc.RANGE_START, tc.RANGE_END)
              IN  [k \in 1..Len(items) |-> tc.PREFIX \o <<"/">> \o Str(items[k])]
    ELSE IF tc.TYPE = "list"
    THEN [k \in 1..Len(tc.LIST) |->
             tc.PREFIX \o <<"/">> \o Str(tc.LIST[Len(tc.LIST) + 1 - k])]
    ELSE <<>>

\* the body of the loop over TOPICS: the topic_url of the Topics that one
\* entry adds to loaded_topics
LoadTopic(tc) ==
    IF tc.PREFIX = <<>> THEN <<>>
    ELSE IF tc.TYPE = "" THEN <<>>
    ELSE IF tc.TYPE = "single" THEN <<tc.PREFIX>>
    ELSE IF tc.TYPE = "multiple"
    THEN IF tc.RANGE_END < tc.RANGE_START THEN <<>>
         ELSE LET items == RangeItems(tc.RANGE_START, tc.RANGE_END)
              IN  [k \in 1..Len(items) |-> tc.PREFIX \o <<"/">> \o Str(items[k])]
    ELSE IF tc.TYPE = "list"
    THEN [k \in 1..Len(tc.LIST) |-> tc.PREFIX \o <<"/">> \o Str(tc.LIST[k])]
    ELSE <<>>

\* _load_config(): loaded_topics after the entries from the i-th on
RECURSIVE load_config(_, _)
load_config(specs, i) ==
    IF i > Len(specs) THEN <<>>
    ELSE LoadTopic(specs[i]) \o load_config(specs, i + 1)

\* _load_config(): for each Topic of loaded_topics, the entry of TOPICS in
\* whose pass of the loop it was constructed
RECURSIVE LoadedFrom(_, _)
LoadedFrom(specs, i) ==
    IF i > Len(specs) THEN <<>>
    ELSE [k \in 1..Len(LoadTopic(specs[i])) |-> i] \o LoadedFrom(specs, i + 1)

\* settings_dict.get(key, default)
Get(settings_dict, key, default) ==
    IF key \in Keys(settings_dict)
    THEN (CHOOSE p \in settings_dict : p[1] = key)[2]
    ELSE default

ClientSettings(clean, retain, qos, time_interval) ==
    [retain |-> retain, qos |-> qos, clean |-> clean, time_interval |-> time_interval]

\* Simulator.__init__(): self.default_client_settings
default_client_settings == ClientSettings(None, Bool(FALSE), Scalar(1), Scalar(10))

\* _read_client_settings() in which a QOS already set in the defaults wins
\* over the QOS of the dict
read_client_settings_default_first(settings_dict, default) ==
    ClientSettings(
        Get(settings_dict, "clean", Get(settings_dict, "CLEAN_SESSION", default.clean)),
        Get(settings_dict, "RETAIN", default.retain),
        IF default.qos # Scalar(1) THEN default.qos ELSE Get(settings_dict, "QOS", default.qos),
        Get(settings_dict, "TIME_INTERVAL", default.time_interval))

\* _read_client_settings()
read_client_settings(settings_dict, default) ==
    ClientSettings(
        Get(settings_dict, "clean", Get(settings_dict, "CLEAN_SESSION", default.clean)),
        Get(settings_dict, "RETAIN", default.retain),
        Get(settings_dict, "QOS", default.qos),
        Get(settings_dict, "TIME_INTERVAL", default.time_interval))

\* the topic_data that the Topics of loaded_topics can be constructed with,
\* from the i-th Topic on: a bool generator draws its start value
RECURSIVE LoadFleetData(_, _, _)
LoadFleetData(specs, from, i) ==
    IF i > Len(from) THEN {<<>>}
    ELSE LET own == {load_topic_data(specs[from[i]].DATA, b) : b \in BOOLEAN}
         IN  {<<d>> \o rest : d \in own, rest \in LoadFleetData(specs, from, i + 1)}

(***************************************************************************)
(* main.py and Simulator.run() with the fleet of Topic threads.  A Topic   *)
(* is followed through its states only: connecting, in its loop, ended.    *)
(* The shutdown pass is Simulator.stop() without its clock: a join() may   *)
(* time out on a live thread, and the budget may be spent after any join.  *)
(***************************************************************************)
MaxFleetPubs == 1   \* publish calls counted per Topic
FleetSize == 2      \* Topics of the range entry of SimSettings

\* the dicts that have, for each of the five delivery keys, no value or one of
\* the values given for it
Opt(key, vals) == {{}} \cup {{<<key, v>>} : v \in vals}

ClientDicts(clean, clean_session, retain, qos, time_interval) ==
    {a \cup b \cup c \cup d \cup e :
        a \in Opt("clean", clean), b \in Opt("CLEAN_SESSION", clean_session),
        c \in Opt("RETAIN", retain), d \in Opt("QOS", qos),
        e \in Opt("TIME_INTERVAL", time_interval)}

\* delivery settings at the top level of the settings file
FleetDicts ==
    ClientDicts({Bool(TRUE)}, {Bool(FALSE)}, {Bool(TRUE)}, {Scalar(0), Scalar(2)},
                {Scalar(5)})

\* delivery settings in an entry of TOPICS
TopicDicts ==
    ClientDicts({Bool(FALSE)}, {Bool(FALSE), Bool(TRUE)}, {Bool(FALSE), Bool(TRUE)},
                {Scalar(0), Scalar(2)}, {Scalar(7)})

\* settings with delivery settings at both levels: a single entry, and after
\* it a range entry that sets QOS only or a single entry that sets nothing
ClientLoadSettings ==
    {FleetSettings("object",
                   <<DeviceSpec("single", Prefix, 1, 0, <<>>, <<>>, StaticRoot, t), e>>, f) :
        f \in FleetDicts, t \in TopicDicts,
        e \in {DeviceSpec("multiple", Prefix, 1, FleetSize, <<>>, <<>>, StaticRoot,
                          {<<"QOS", Scalar(0)>>}),
               TopicSpec("single", Prefix, 1, 0, <<>>)}}

\* DATA lists with and without configurations no generator can be made from
DataLists ==
    { <<>>,
      <<RawData("v", <<Scalar(1)>>, FALSE, 0)>>,
      <<UnknownData("u"), RawData("v", <<Scalar(1)>>, FALSE, 0), BoolData(Absent),
        BoolData("on")>>,
      <<NumberData("n", Scalar(1)), UnknownData("u")>> }

\* entries of TOPICS that are loaded, and entries that are passed over
LoadEntries ==
    {DeviceSpec("single", Prefix, 1, 0, <<>>, d, {}, {}) : d \in DataLists}
    \cup {DeviceSpec("multiple", Prefix, 1, FleetSize, <<>>, d, {}, {}) : d \in DataLists}
    \cup {DeviceSpec("list", Prefix, 1, 0, <<3, 1>>, <<BoolData("on")>>, {}, {})}
    \cup {TopicSpec("single", <<>>, 1, 0, <<>>), TopicSpec("", Prefix, 1, 0, <<>>),
          TopicSpec("other", Prefix, 1, 0, <<>>), TopicSpec("list", Prefix, 1, 0, <<>>),
          TopicSpec("multiple", Prefix, 2, 1, <<>>)}

MaxEntries == 3    \* entries of TOPICS in the settings of MalformedLoadSettings

MalformedLoadSettings ==
    {Settings("object", specs) : specs \in SeqsUpTo(LoadEntries, MaxEntries)}

SimSettings ==
    { Settings("missing", <<>>),
      Settings("invalid", <<>>),
      Settings("not_object", <<>>),
      Settings("object", <<>>),
      Settings("object", <<TopicSpec("other", Prefix, 1, 0, <<>>)>>),
      Settings("object", <<TopicSpec("single", Prefix, 1, 0, <<>>)>>),
      Settings("object", <<TopicSpec("multiple", Prefix, 1, FleetSize, <<>>)>>) }

\* the exit status of an interpreter ended by an unhandled KeyboardInterrupt
InterruptStatus == {1, 130}

IdleSim ==
    /\ settings = 0 /\ topics = <<>> /\ m_pc = "off" /\ start_i = 0
    /\ interrupted = FALSE /\ exit_status = -1 /\ f_state = <<>> /\ f_stop = <<>>
    /\ f_client = <<>> /\ f_pubs = <<>> /\ budget_spent = FALSE
    /\ client_settings = <<>> /\ f_data = <<>>

\* the process before main.py has looked at its arguments
InitSim ==
    /\ topics = <<>>
    /\ start_i = 0
    /\ interrupted = FALSE
    /\ exit_status = -1
    /\ f_state = <<>>
    /\ f_stop = <<>>
    /\ f_client = <<>>
    /\ f_pubs = <<>>
    /\ f_data = <<>>
    /\ client_settings = <<>>
    /\ budget_spent = FALSE
    /\ s_pc = "idle"
    /\ signalled = {}
    /\ active_topics = <<>>
    /\ sig_i = 0
    /\ threads_to_join = <<>>
    /\ warned = {}
    /\ reported = {}
    /\ now = 0 /\ w_delay = <<>> /\ w_exit = <<>> /\ start_time = 0 /\ join_deadline = 0

Fleet == DOMAIN f_state

\* Thread.is_alive() of the i-th Topic
TopicAlive(i) == f_state[i] \in {"connect", "loop"}

\* [t for t in self.topics if t.is_alive()]
AliveTopics == SelectSeq([i \in 1..Len(topics) |-> i], LAMBDA i : TopicAlive(i))

\* a monitor loop that goes on only while every Topic is alive
MonitorGoesOn_all == \A i \in Fleet : TopicAlive(i)

\* run(): any(t.is_alive() for t in self.topics)
MonitorGoesOn == \E i \in Fleet : TopicAlive(i)

\* main.py: is_valid_file(); parser.error() exits with status 2
MainArgs ==
    /\ m_pc = "args"
    /\ IF settings.kind = "missing"
       THEN m_pc' = "exited" /\ exit_status' = 2
       ELSE m_pc' = "init" /\ UNCHANGED exit_status
    /\ UNCHANGED <<not_sim_vars, settings, topics, client_settings, start_i, interrupted, fleet_vars,
                   budget_spent, s_pc, signalled, active_topics, sig_i, threads_to_join,
                   warned, reported>>

\* main.py: Simulator(args.settings_file), that is _load_config(); an
\* exception of it reaches the handler of main.py, which exits with status 1
SimInit ==
    /\ m_pc = "init"
    /\ IF settings.kind = "not_object"
       THEN /\ m_pc' = "exited" /\ exit_status' = 1
            /\ UNCHANGED <<topics, client_settings, fleet_vars>>
       ELSE /\ topics' = IF settings.kind = "object" THEN load_config(settings.TOPICS, 1)
                         ELSE <<>>
            /\ LET from == LoadedFrom(settings.TOPICS, 1)
                   broker_level == read_client_settings(settings.CLIENT,
                                                        default_client_settings)
               IN  /\ client_settings' =
                          [i \in 1..Len(topics') |->
                              read_client_settings(settings.TOPICS[from[i]].CLIENT,
                                                   broker_level)]
                   /\ f_data' \in LoadFleetData(settings.TOPICS, from, 1)
            /\ f_state' = [i \in 1..Len(topics') |-> "created"]
            /\ f_stop' = [i \in 1..Len(topics') |-> FALSE]
            /\ f_client' = [i \in 1..Len(topics') |-> "none"]
            /\ f_pubs' = [i \in 1..Len(topics') |-> 0]
            /\ m_pc' = "run"
            /\ UNCHANGED exit_status
    /\ UNCHANGED <<not_sim_vars, settings, start_i, interrupted, budget_spent, s_pc,
                   signalled, active_topics, sig_i, threads_to_join, warned, reported>>

\* run(): if not self.topics: return
SimRun ==
    /\ m_pc = "run"
    /\ IF topics = <<>>
       THEN m_pc' = "finished" /\ UNCHANGED start_i
       ELSE m_pc' = "start" /\ start_i' = 1
    /\ UNCHANGED <<not_sim_vars, settings, topics, client_settings, interrupted, exit_status, fleet_vars,
                   budget_spent, s_pc, signalled, active_topics, sig_i, threads_to_join,
                   warned, reported>>

\* run(): the start loop: topic.start(); time.sleep(0.5)
SimStart ==
    /\ m_pc = "start"
    /\ IF start_i <= Len(topics)
       THEN /\ f_state' = [f_state EXCEPT ![start_i] = "connect"]
            /\ start_i' = start_i + 1
            /\ UNCHANGED m_pc
       ELSE m_pc' = "monitor" /\ UNCHANGED <<f_state, start_i>>
    /\ UNCHANGED <<not_sim_vars, settings, topics, client_settings, interrupted, exit_status, f_stop,
                   f_client, f_pubs, f_data, budget_spent, s_pc, signalled, active_topics, sig_i,
                   threads_to_join, warned, reported>>

\* run(): the monitor loop finds no Topic alive; finally: self.stop()
SimMonitor ==
    /\ m_pc = "monitor"
    /\ ~MonitorGoesOn
    /\ m_pc' = "stop"
    /\ UNCHANGED <<not_sim_vars, settings, topics, client_settings, start_i, interrupted, exit_status,
                   fleet_vars, budget_spent, s_pc, signalled, active_topics, sig_i,
                   threads_to_join, warned, reported>>

\* a KeyboardInterrupt in the main thread.  Inside the try of run() it is
\* caught and stop() follows; in the start loop and inside stop() nothing
\* catches it (main.py handles Exception only) and the interpreter ends
Interrupt ==
    /\ ~interrupted
    /\ m_pc \in {"start", "monitor", "stop"}
    /\ interrupted' = TRUE
    /\ IF m_pc = "monitor"
       THEN m_pc' = "stop" /\ UNCHANGED exit_status
       ELSE m_pc' = "exited" /\ exit_status' \in InterruptStatus
    /\ UNCHANGED <<not_sim_vars, settings, topics, client_settings, start_i, fleet_vars, budget_spent, s_pc,
                   signalled, active_topics, sig_i, threads_to_join, warned, reported>>

\* stop(): active_topics = [t for t in self.topics if t.is_alive()]
SimStopEnter ==
    /\ m_pc = "stop" /\ s_pc = "idle"
    /\ active_topics' = AliveTopics
    /\ sig_i' = 1
    /\ s_pc' = "signal"
    /\ UNCHANGED <<not_sim_vars, main_vars, fleet_vars, budget_spent, signalled,
                   threads_to_join, warned, reported>>

\* stop(): topic.disconnect() on the main thread: the stop event is set and
\* the client of the Topic is stopped, disconnected and cleared
SimStopSignal ==
    /\ m_pc = "stop" /\ s_pc = "signal"
    /\ sig_i <= Len(active_topics)
    /\ LET w == active_topics[sig_i]
       IN  /\ f_stop' = [f_stop EXCEPT ![w] = TRUE]
           /\ f_client' = [f_client EXCEPT ![w] = "none"]
           /\ signalled' = signalled \cup {w}
    /\ sig_i' = sig_i + 1
    /\ UNCHANGED <<not_sim_vars, main_vars, f_state, f_pubs, f_data, budget_spent, s_pc,
                   active_topics, threads_to_join, warned, reported>>

\* stop(): start_time, shutdown_timeout, threads_to_join
SimStopStartWait ==
    /\ m_pc = "stop" /\ s_pc = "signal"
    /\ sig_i > Len(active_topics)
    /\ threads_to_join' = AliveTopics
    /\ budget_spent' = FALSE
    /\ s_pc' = "loop"
    /\ UNCHANGED <<not_sim_vars, main_vars, fleet_vars, signalled, active_topics, sig_i,
                   warned, reported>>

\* stop(): the top of the while loop
SimStopLoopTop ==
    /\ m_pc = "stop" /\ s_pc = "loop"
    /\ s_pc' = IF threads_to_join = <<>> \/ budget_spent THEN "final" ELSE "join"
    /\ UNCHANGED <<not_sim_vars, main_vars, fleet_vars, budget_spent, signalled,
                   active_topics, sig_i, threads_to_join, warned, reported>>

\* stop(): join() returns because the thread has ended
SimStopJoinDone ==
    /\ m_pc = "stop" /\ s_pc = "join"
    /\ ~TopicAlive(Head(threads_to_join))
    /\ threads_to_join' = Tail(threads_to_join)
    /\ budget_spent' \in BOOLEAN
    /\ s_pc' = "loop"
    /\ UNCHANGED <<not_sim_vars, main_vars, fleet_vars, signalled, active_topics, sig_i,
                   warned, reported>>

\* stop(): join() times out, which it does when the budget is spent
SimStopJoinTimeout ==
    /\ m_pc = "stop" /\ s_pc = "join"
    /\ TopicAlive(Head(threads_to_join))
    /\ warned' = warned \cup {Head(threads_to_join)}
    /\ threads_to_join' = Tail(threads_to_join)
    /\ budget_spent' = TRUE
    /\ s_pc' = "loop"
    /\ UNCHANGED <<not_sim_vars, main_vars, fleet_vars, signalled, active_topics, sig_i,
                   reported>>

\* stop(): the final check; stop() and run() return
SimStopFinal ==
    /\ m_pc = "stop" /\ s_pc = "final"
    /\ reported' = {i \in Fleet : TopicAlive(i)}
    /\ s_pc' = "returned"
    /\ m_pc' = "finished"
    /\ UNCHANGED <<not_sim_vars, settings, topics, client_settings, start_i, interrupted, exit_status,
                   fleet_vars, budget_spent, signalled, active_topics, sig_i,
                   threads_to_join, warned>>

\* main.py: sys.exit(0)
MainExit ==
    /\ m_pc = "finished"
    /\ m_pc' = "exited"
    /\ exit_status' = 0
    /\ UNCHANGED <<not_sim_vars, settings, topics, client_settings, start_i, interrupted, fleet_vars,
                   budget_spent, s_pc, signalled, active_topics, sig_i, threads_to_join,
                   warned, reported>>

\* Topic.run(): _connect() returns True
WorkerConnectOk(i) ==
    /\ m_pc # "exited"
    /\ f_state[i] = "connect"
    /\ f_state' = [f_state EXCEPT ![i] = "loop"]
    /\ f_client' = [f_client EXCEPT ![i] = "obj"]
    /\ UNCHANGED <<not_sim_vars, main_vars, f_stop, f_pubs, f_data, budget_spent, s_pc, signalled,
                   active_topics, sig_i, threads_to_join, warned, reported>>

\* Topic.run(): _connect() returns False and run() returns
WorkerConnectFail(i) ==
    /\ m_pc # "exited"
    /\ f_state[i] = "connect"
    /\ f_state' = [f_state EXCEPT ![i] = "done"]
    /\ UNCHANGED <<not_sim_vars, main_vars, f_stop, f_client, f_pubs, f_data, budget_spent, s_pc,
                   signalled, active_topics, sig_i, threads_to_join, warned, reported>>

\* the entry of TOPICS that the i-th Topic was constructed from
SpecOfTopic(i) == settings.TOPICS[LoadedFrom(settings.TOPICS, 1)[i]]

\* a cycle that advances the generators of every Topic of the same entry, as
\* if these Topics held the same generator instances
WorkerPublish_shared(i) ==
    /\ m_pc # "exited"
    /\ f_state[i] = "loop"
    /\ ~f_stop[i]
    /\ f_client[i] = "obj"
    /\ LET res == generate_payload(f_data[i], SpecOfTopic(i).PAYLOAD_ROOT)
           from == LoadedFrom(settings.TOPICS, 1)
       IN  /\ ~res.is_none
           /\ f_data' = [j \in DOMAIN f_data |->
                            IF from[j] = from[i] THEN res.topic_data ELSE f_data[j]]
    /\ f_pubs' = [f_pubs EXCEPT ![i] = Min2(f_pubs[i] + 1, MaxFleetPubs)]
    /\ UNCHANGED <<not_sim_vars, main_vars, f_state, f_stop, f_client, budget_spent, s_pc,
                   signalled, active_topics, sig_i, threads_to_join, warned, reported>>

\* Topic.run(): one cycle of the loop with _generate_payload() and the
\* publish call
WorkerPublish(i) ==
    /\ m_pc # "exited"
    /\ f_state[i] = "loop"
    /\ ~f_stop[i]
    /\ f_client[i] = "obj"
    /\ LET res == generate_payload(f_data[i], SpecOfTopic(i).PAYLOAD_ROOT)
       IN  /\ ~res.is_none
           /\ f_data' = [f_data EXCEPT ![i] = res.topic_data]
    /\ f_pubs' = [f_pubs EXCEPT ![i] = Min2(f_pubs[i] + 1, MaxFleetPubs)]
    /\ UNCHANGED <<not_sim_vars, main_vars, f_state, f_stop, f_client, budget_spent, s_pc,
                   signalled, active_topics, sig_i, threads_to_join, warned, reported>>

\* Topic._on_connect() with rc # 0 or Topic._on_disconnect() with rc # 0
WorkerLost(i) ==
    /\ m_pc # "exited"
    /\ f_state[i] = "loop"
    /\ ~f_stop[i]
    /\ f_stop' = [f_stop EXCEPT ![i] = TRUE]
    /\ UNCHANGED <<not_sim_vars, main_vars, f_state, f_client, f_pubs, f_data, budget_spent, s_pc,
                   signalled, active_topics, sig_i, threads_to_join, warned, reported>>

\* a stop event that all Topics share
WorkerExit_shared(i) ==
    /\ m_pc # "exited"
    /\ f_state[i] = "loop"
    /\ f_state' = [f_state EXCEPT ![i] = "done"]
    /\ f_stop' = [j \in Fleet |-> TRUE]
    /\ f_client' = [f_client EXCEPT ![i] = "none"]
    /\ UNCHANGED <<not_sim_vars, main_vars, f_pubs, f_data, budget_spent, s_pc, signalled,
                   active_topics, sig_i, threads_to_join, warned, reported>>

\* Topic.run() leaves its loop (stop event set, connection lost, no data left,
\* an exception of a generator or of the client), calls self.disconnect() and
\* returns
WorkerExit(i) ==
    /\ m_pc # "exited"
    /\ f_state[i] = "loop"
    /\ f_state' = [f_state EXCEPT ![i] = "done"]
    /\ f_stop' = [f_stop EXCEPT ![i] = TRUE]
    /\ f_client' = [f_client EXCEPT ![i] = "none"]
    /\ UNCHANGED <<not_sim_vars, main_vars, f_pubs, f_data, budget_spent, s_pc, signalled,
                   active_topics, sig_i, threads_to_join, warned, reported>>

\* the steps of the main thread, a KeyboardInterrupt apart
SimMainStep ==
    \/ MainArgs \/ SimInit \/ SimRun \/ SimStart \/ SimMonitor
    \/ SimStopEnter \/ SimStopSignal \/ SimStopStartWait \/ SimStopLoopTop
    \/ SimStopJoinDone \/ SimStopJoinTimeout \/ SimStopFinal
    \/ MainExit

\* the steps of the Topic threads
FleetStep ==
    \E i \in Fleet :
        \/ WorkerConnectOk(i) \/ WorkerConnectFail(i) \/ WorkerPublish(i)
        \/ WorkerLost(i) \/ WorkerExit(i)

NextSim == SimMainStep \/ Interrupt \/ FleetStep

\* a listener thread next to the fleet: nothing in simulator.py or main.py
\* creates, starts or looks at one
ListenerStep ==
    \/ ListenerStart \/ ListenerConnectOk \/ ListenerConnectFail
    \/ ListenerOnConnect(0, TRUE) \/ ListenerOnDisconnect
    \/ ListenerWake \/ ListenerLoopStop \/ ListenerDisconnect

NextSimListener == SimMainStep \/ Interrupt \/ FleetStep \/ ListenerStep

(***************************************************************************)
(* Topic._connect(): the broker client a Topic creates                     *)
(***************************************************************************)

\* paho.mqtt.client protocol constants
MQTTv31 == 3
MQTTv311 == 4
MQTTv5 == 5

Protocols == {MQTTv31, MQTTv311, MQTTv5}

\* the range of random.randint(1000, 9999)
RandLow == 1000
RandHigh == 9999

\* the draws of random.randint() looked at: both ends and one in between
SuffixDraws == {RandLow, RandLow + 1, RandHigh}

\* topic urls, as sequences of characters
TopicUrls == { <<"a", "/", "b">>, <<"a", "_", "b">>, <<"a", "/", "c">> }

\* ClientSettings.clean is Optional[bool]
CleanValues == {None, Bool(TRUE), Bool(FALSE)}

\* what _connect() reads of a Topic
ClientDevices == [clean : CleanValues, topic_url : TopicUrls]

DeviceLists == UNION { [1..n -> ClientDevices] : n \in 1..FleetSize }

\* str.replace('/', '_')
ReplaceSlash(s) == [i \in 1..Len(s) |-> IF s[i] = "/" THEN "_" ELSE s[i]]

\* f"simulator-{self.topic_url.replace('/', '_')}"
base_client_id(topic_url) ==
    <<"s", "i", "m", "u", "l", "a", "t", "o", "r", "-">> \o ReplaceSlash(topic_url)

\* the client id of _connect(); draw is what random.randint() returns
make_client_id(dev, draw) ==
    IF dev.clean # Bool(FALSE)
    THEN base_client_id(dev.topic_url) \o <<"-">> \o Str(draw)
    ELSE base_client_id(dev.topic_url)

\* an argument that is not passed in a call
NotPassed == [tag |-> "absent", s |-> 0, d |-> {}]

\* the clean_session argument of mqtt.Client()
clean_session_always(dev, protocol) ==
    IF dev.clean = None THEN Bool(TRUE) ELSE dev.clean

clean_session_arg(dev, protocol) ==
    IF protocol >= MQTTv5
    THEN NotPassed
    ELSE IF dev.clean = None THEN Bool(TRUE) ELSE dev.clean

\* the mqtt.Client that _connect() constructs
make_client(dev, protocol, draw) ==
    [clean_session |-> clean_session_arg(dev, protocol),
     protocol |-> protocol,
     client_id |-> make_client_id(dev, draw)]

IdleClient == c_in = <<>> /\ c_protocol = 0 /\ c_out = <<>>

\* the next Topic of the fleet runs _connect() up to the creation of its client
CreateClient ==
    /\ Len(c_out) < Len(c_in)
    /\ \E draw \in SuffixDraws :
          c_out' = Append(c_out, make_client(c_in[Len(c_out) + 1], c_protocol, draw))
    /\ UNCHANGED <<not_client_vars, c_in, c_protocol>>

(***************************************************************************)
(* status_server.py: the status light                                      *)
(***************************************************************************)
TRIGGER_TOPIC == "prison/security/lightsout/"
TRIGGER_PAYLOAD == "getout"
FINAL_FLAG == "FLAG{LIGHTS_OUT_AND_IM_GONE}"

\* payload bytes that are not valid UTF-8
InvalidUtf8 == "(invalid utf-8)"

\* the most messages the listener is followed through
MaxWebMsgs == 2

WebTopics == {TRIGGER_TOPIC, "prison/security/lightsout", "prison/security/lightsout/x"}
WebPayloads == {TRIGGER_PAYLOAD, "getout ", "GETOUT", "", InvalidUtf8}

\* on_web_message(): security_state after the call.  decode() raises on
\* invalid bytes and the handler's except clause swallows that.
on_web_message_topic_only(state, topic, payload) ==
    IF payload = InvalidUtf8 THEN state
    ELSE IF topic = TRIGGER_TOPIC
         THEN (IF state = "RED" THEN "GREEN" ELSE state)
         ELSE state

on_web_message(state, topic, payload) ==
    IF payload = InvalidUtf8 THEN state
    ELSE IF topic = TRIGGER_TOPIC /\ payload = TRIGGER_PAYLOAD
         THEN (IF state = "RED" THEN "GREEN" ELSE state)
         ELSE state

\* html_template: the light and, in the else branch, the flag box
render_template(state, flag_value) ==
    IF state = "RED"
    THEN [light |-> "red", flag |-> Absent]
    ELSE [light |-> "green", flag |-> flag_value]

\* status_page()
status_page(state) ==
    LET current_state == state
        flag_to_display == IF current_state = "GREEN" THEN FINAL_FLAG ELSE "None"
    IN  render_template(current_state, flag_to_display)

NoPage == [light |-> Absent, flag |-> Absent]

IdleWeb ==
    /\ security_state = "" /\ mqtt_connected = FALSE /\ exit_app = FALSE
    /\ w_pc = "off" /\ w_link = "down" /\ w_recv = <<>> /\ w_page = NoPage

\* module load and the start of mqtt_thread
InitWebState ==
    /\ security_state = "RED" /\ mqtt_connected = FALSE /\ exit_app = FALSE
    /\ w_pc = "check" /\ w_link = "down" /\ w_recv = <<>> /\ w_page = NoPage

\* mqtt_listener_thread(): connect() returns, loop_forever() is entered
WebConnectOk ==
    /\ w_pc = "check" /\ ~exit_app /\ ~mqtt_connected
    /\ mqtt_connected' = TRUE
    /\ w_pc' = "loop"
    /\ w_link' = "tcp"
    /\ UNCHANGED <<not_web_vars, security_state, exit_app, w_recv, w_page>>

\* mqtt_listener_thread(): connect() raises, the handler sleeps 10 s
WebConnectFail ==
    /\ w_pc = "check" /\ ~exit_app /\ ~mqtt_connected
    /\ mqtt_connected' = FALSE
    /\ w_pc' = "sleep"
    /\ UNCHANGED <<not_web_vars, security_state, exit_app, w_link, w_recv, w_page>>

WebSleepDone ==
    /\ w_pc = "sleep"
    /\ w_pc' = "check"
    /\ UNCHANGED <<not_web_vars, security_state, mqtt_connected, exit_app, w_link,
                   w_recv, w_page>>

\* on_web_connect(): the CONNACK; rc = 0 subscribes to TRIGGER_TOPIC
WebOnConnect(rc) ==
    /\ w_pc = "loop" /\ w_link = "tcp"
    /\ mqtt_connected' = (rc = 0)
    /\ w_link' = IF rc = 0 THEN "up" ELSE "down"
    /\ UNCHANGED <<not_web_vars, security_state, exit_app, w_pc, w_recv, w_page>>

\* on_web_message(): a message is handed to the listener
WebOnMessage(topic, payload) ==
    /\ w_pc = "loop" /\ w_link = "up"
    /\ Len(w_recv) < MaxWebMsgs
    /\ security_state' = on_web_message(security_state, topic, payload)
    /\ w_recv' = Append(w_recv, <<topic, payload>>)
    /\ UNCHANGED <<not_web_vars, mqtt_connected, exit_app, w_pc, w_link, w_page>>

\* on_web_disconnect(): the connection is lost
WebOnDisconnect ==
    /\ w_pc = "loop" /\ w_link = "up"
    /\ mqtt_connected' = FALSE
    /\ w_link' = "down"
    /\ UNCHANGED <<not_web_vars, security_state, exit_app, w_pc, w_recv, w_page>>

\* loop_forever() reconnects after a lost connection
WebReconnect ==
    /\ w_pc = "loop" /\ w_link = "down" /\ ~exit_app
    /\ w_link' = "tcp"
    /\ UNCHANGED <<not_web_vars, security_state, mqtt_connected, exit_app, w_pc,
                   w_recv, w_page>>

\* the finally clause of the main thread: exit_app.set(), mqtt_client.disconnect()
WebShutdown ==
    /\ ~exit_app
    /\ exit_app' = TRUE
    /\ w_link' = "down"
    /\ UNCHANGED <<not_web_vars, security_state, mqtt_connected, w_pc, w_recv, w_page>>

\* loop_forever() returns after disconnect()
WebLoopExit ==
    /\ w_pc = "loop" /\ exit_app
    /\ mqtt_connected' = FALSE
    /\ w_pc' = "check"
    /\ UNCHANGED <<not_web_vars, security_state, exit_app, w_link, w_recv, w_page>>

\* the while loop ends on exit_app; is_connected() is false, nothing to clean up
WebExit ==
    /\ w_pc = "check" /\ exit_app
    /\ w_pc' = "done"
    /\ UNCHANGED <<not_web_vars, security_state, mqtt_connected, exit_app, w_link,
                   w_recv, w_page>>

\* GET / while the web server runs
WebStatusPage ==
    /\ ~exit_app
    /\ w_page' = status_page(security_state)
    /\ UNCHANGED <<not_web_vars, security_state, mqtt_connected, exit_app, w_pc,
                   w_link, w_recv>>

NextWeb ==
    \/ WebConnectOk \/ WebConnectFail \/ WebSleepDone
    \/ \E rc \in {0, 5} : WebOnConnect(rc)
    \/ \E topic \in WebTopics, payload \in WebPayloads : WebOnMessage(topic, payload)
    \/ WebOnDisconnect \/ WebReconnect \/ WebShutdown \/ WebLoopExit \/ WebExit
    \/ WebStatusPage

(***************************************************************************)
(* Specifications                                                          *)
(***************************************************************************)
InitNumber ==
    /\ \E c \in NumberConfigs : num = TopicDataNumber_init(c)
    /\ num_ret = <<>>
    /\ IdleClient /\ IdleWeb /\ IdleRaw /\ IdleTopic /\ IdleMath /\ IdleListener /\ IdleStop /\ IdleSim

SpecNumber == InitNumber /\ [][NumberGenerate]_vars

InitRaw ==
    /\ \E c \in RawConfigs : raw_cfg = c /\ raw = TopicDataRawValue_init(c)
    /\ raw_hist = <<>>
    /\ IdleNumber /\ IdleClient /\ IdleWeb /\ IdleTopic /\ IdleMath /\ IdleListener /\ IdleStop /\ IdleSim

SpecRaw == InitRaw /\ [][RawGenerate]_vars

InitMath ==
    /\ \E c \in MathConfigs : mex_cfg = c /\ mex = TopicDataMathExpression_init(c)
    /\ mex_hist = <<>>
    /\ IdleNumber /\ IdleClient /\ IdleWeb /\ IdleRaw /\ IdleTopic /\ IdleListener /\ IdleStop /\ IdleSim

SpecMath == InitMath /\ [][MathGenerate]_vars

InitTopicOnly == InitTopic /\ IdleNumber /\ IdleClient /\ IdleWeb /\ IdleRaw /\ IdleMath /\ IdleListener /\ IdleStop /\ IdleSim

SpecTopic == InitTopicOnly /\ [][NextTopic]_vars

\* the Topic with its network thread and nothing that calls disconnect() from
\* another thread
NextTopicSolo == Start \/ WorkerStep \/ BrokerStep \/ Tick

SpecTopicSolo == InitTopicOnly /\ [][NextTopicSolo]_vars

\* the worker thread is scheduled again and again, and calls into the broker
\* client return; nothing is assumed of the clock, the broker or other threads
SpecTopicFair == SpecTopic /\ WF_vars(WorkerStep)

InitListenerOnly == InitListener /\ IdleNumber /\ IdleClient /\ IdleWeb /\ IdleRaw /\ IdleTopic /\ IdleMath /\ IdleStop /\ IdleSim

SpecListener == InitListenerOnly /\ [][NextListener]_vars

\* the steps of the listener thread itself: run() and its disconnect()
ListenerWorkerStep ==
    \/ ListenerConnectOk \/ ListenerConnectFail
    \/ ListenerWake \/ ListenerLoopStop \/ ListenerDisconnect

\* the listener thread keeps running once started; nothing is assumed of the
\* broker or of the messages that arrive
SpecListenerFair == SpecListener /\ WF_vars(ListenerWorkerStep)

InitStopOnly == InitStop /\ IdleNumber /\ IdleClient /\ IdleWeb /\ IdleRaw /\ IdleTopic /\ IdleMath /\ IdleListener /\ IdleSim

SpecStop == InitStopOnly /\ [][NextStop]_vars

\* a Topic whose publish calls are followed to their completion
InitTopicAck == InitTopicOnly /\ t_cfg = PlaylistDevice

NextTopicAck == NextTopic \/ OnPublish

SpecTopicAck == InitTopicAck /\ [][NextTopicAck]_vars

\* a worker thread of either kind: a Topic or a listener
InitWorker == InitTopicOnly \/ InitListenerOnly

NextWorker ==
    \/ t_pc # "idle" /\ NextTopic
    \/ l_pc # "idle" /\ NextListener

SpecWorker == InitWorker /\ [][NextWorker]_vars

\* Simulator.__init__() on every TOPICS list of up to MaxSpecs entries
InitConfig ==
    /\ settings \in {Settings("object", specs) : specs \in SeqsUpTo(TopicSpecs, MaxSpecs)}
    /\ m_pc = "init"
    /\ InitSim
    /\ IdleNumber /\ IdleClient /\ IdleWeb /\ IdleRaw /\ IdleTopic /\ IdleMath /\ IdleListener

SpecConfig == InitConfig /\ [][SimInit]_vars

\* Simulator.__init__() on settings with delivery settings at both levels,
\* and on settings with entries and generator configurations to pass over
InitLoad ==
    /\ settings \in ClientLoadSettings \cup MalformedLoadSettings
    /\ m_pc = "init"
    /\ InitSim
    /\ IdleNumber /\ IdleClient /\ IdleWeb /\ IdleRaw /\ IdleTopic /\ IdleMath /\ IdleListener

SpecLoad == InitLoad /\ [][SimInit]_vars

\* the configuration is loaded and the Topics are started
NextConfigStart == SimInit \/ SimRun \/ SimStart

SpecConfigStart == InitConfig /\ [][NextConfigStart]_vars

InitSimOnly ==
    /\ settings \in SimSettings
    /\ m_pc = "args"
    /\ InitSim
    /\ IdleNumber /\ IdleClient /\ IdleWeb /\ IdleRaw /\ IdleTopic /\ IdleMath /\ IdleListener

SpecSim == InitSimOnly /\ [][NextSim]_vars

\* settings with one range entry or one list entry whose Topics have a
\* playlist of two literals and a bool generator, and no static payload
FleetDataSettings ==
    {Settings("object", <<DeviceSpec(type, Prefix, 1, FleetSize, <<3, 1>>,
                                     <<RawData("v", <<Scalar(1), Scalar(2)>>, FALSE, 0),
                                       BoolData("on")>>, {}, {})>>) :
        type \in {"multiple", "list"}}

InitFleetData ==
    /\ settings \in FleetDataSettings
    /\ m_pc = "args"
    /\ InitSim
    /\ IdleNumber /\ IdleClient /\ IdleWeb /\ IdleRaw /\ IdleTopic /\ IdleMath /\ IdleListener

SpecFleetData == InitFleetData /\ [][NextSim]_vars

\* the main thread keeps running; nothing is assumed of the Topic threads or
\* of the arrival of a KeyboardInterrupt
SpecSimFair == SpecSim /\ WF_vars(SimMainStep)

InitSimListener ==
    /\ settings \in SimSettings
    /\ m_pc = "args"
    /\ InitSim
    /\ IdleNumber /\ IdleClient /\ IdleWeb /\ IdleRaw /\ IdleTopic /\ IdleMath /\ InitListener

SpecSimListener == InitSimListener /\ [][NextSimListener]_vars

SpecSimListenerFair == SpecSimListener /\ WF_vars(SimMainStep)

\* Topic._connect() on the Topics of a fleet, one after the other
InitClient ==
    /\ c_in \in DeviceLists /\ c_protocol \in Protocols /\ c_out = <<>>
    /\ IdleNumber /\ IdleRaw /\ IdleTopic /\ IdleMath /\ IdleListener /\ IdleStop /\ IdleSim
    /\ IdleWeb

SpecClient == InitClient /\ [][CreateClient]_vars

\* status_server.py: the listener thread, the web server and the shutdown
InitWeb ==
    /\ InitWebState
    /\ IdleNumber /\ IdleRaw /\ IdleTopic /\ IdleMath /\ IdleListener /\ IdleStop /\ IdleSim
    /\ IdleClient

SpecWeb == InitWeb /\ [][NextWeb]_vars

(***************************************************************************)
(* Properties of the value generators                                      *)
(***************************************************************************)

\* C1: with MIN_VALUE <= MAX_VALUE every value returned by
\* TopicDataNumber.generate_value() lies in [MIN_VALUE, MAX_VALUE].
C1_ValueInRange ==
    (num_ret # <<>> /\ num.min_value <= num.max_value)
        => (num.min_value <= num_ret[1] /\ num_ret[1] <= num.max_value)

\* the k-th literal of the playlist, as generate_value() hands it back
ExpectedValue(k) ==
    LET v == raw_cfg.VALUES[k]
    IN  IF v.tag = "dict" /\ raw_cfg.VALUE_DEFAULT.tag = "dict"
        THEN Dict(DictUpdate(raw_cfg.VALUE_DEFAULT.d, v.d))
        ELSE v

NoRestartPlaylist == ~raw_cfg.RESTART_ON_END /\ Len(raw_cfg.VALUES) >= 1
RestartPlaylist == raw_cfg.RESTART_ON_END /\ Len(raw_cfg.VALUES) >= 1

\* C4 as stated: without restart, calls 1..N return exactly the N literals in
\* list order, every later call returns None and leaves the generator inactive.
C4_ReturnsLiterals ==
    NoRestartPlaylist =>
        /\ \A k \in 1..Len(raw_hist) :
              raw_hist[k] = IF k <= Len(raw_cfg.VALUES) THEN raw_cfg.VALUES[k] ELSE None
        /\ Len(raw_hist) > Len(raw_cfg.VALUES) => ~raw.is_active

C4_State ==
    NoRestartPlaylist =>
        /\ \A k \in 1..Len(raw_hist) :
              raw_hist[k] = IF k <= Len(raw_cfg.VALUES) THEN ExpectedValue(k) ELSE None
        /\ Len(raw_hist) > Len(raw_cfg.VALUES) => ~raw.is_active

\* C4 (amended): without restart, calls 1..N return the N literals in list
\* order, a dict literal laid over a dict VALUE_DEFAULT; every later call
\* returns None and leaves the generator inactive; an inactive generator never
\* becomes active again.
C4_PlaylistEnds ==
    /\ []C4_State
    /\ [][NoRestartPlaylist /\ ~raw.is_active => ~raw'.is_active]_vars

C4_Witness ==
    /\ NoRestartPlaylist
    /\ Len(raw_cfg.VALUES) = 2
    /\ Len(raw_hist) >= 4
    /\ ~raw.is_active
    /\ raw_hist[1] # raw_cfg.VALUES[1]

\* C5 as stated: with restart the generator stays active, call k+N returns
\* what call k returned, the first N calls return the literals in list order,
\* and the literal list and the default map are never changed.
C5_CyclesLiterals ==
    RestartPlaylist =>
        /\ raw.is_active
        /\ \A k \in 1..Len(raw_hist) :
              /\ k <= Len(raw_cfg.VALUES) => raw_hist[k] = raw_cfg.VALUES[k]
              /\ k > Len(raw_cfg.VALUES) => raw_hist[k] = raw_hist[k - Len(raw_cfg.VALUES)]
        /\ raw.values = raw_cfg.VALUES
        /\ raw.value_default = raw_cfg.VALUE_DEFAULT

\* C5 (amended): with restart the generator stays active, call k+N returns
\* what call k returned, the first N calls return the literals in list order
\* (a dict literal laid over a dict VALUE_DEFAULT), and the literal list and
\* the default map are never changed.
C5_Cycles ==
    RestartPlaylist =>
        /\ raw.is_active
        /\ \A k \in 1..Len(raw_hist) :
              /\ k <= Len(raw_cfg.VALUES) => raw_hist[k] = ExpectedValue(k)
              /\ k > Len(raw_cfg.VALUES) => raw_hist[k] = raw_hist[k - Len(raw_cfg.VALUES)]
        /\ raw.values = raw_cfg.VALUES
        /\ raw.value_default = raw_cfg.VALUE_DEFAULT

C5_Witness ==
    /\ RestartPlaylist
    /\ Len(raw_cfg.VALUES) = 2
    /\ raw_cfg.VALUES[1] # raw_cfg.VALUES[2]
    /\ Len(raw_hist) >= 5
    /\ raw_hist[1] # raw_cfg.VALUES[1]

(***************************************************************************)
(* Properties of the Topic worker                                          *)
(***************************************************************************)

\* C2: the device of three literals, restart disabled and no static fragment
\* makes exactly 3 publish calls and then leaves its loop for lack of data
\* without a 4th publish, while no stop is signaled and the connection is up.
C2_ThreePublishes ==
    (t_cfg = PlaylistDevice /\ ~stop_event /\ conn = "connected") =>
        /\ pub_count <= 3
        /\ exit_reason = "no_data" => pub_count = 3

\* C3: no publish call carries a payload without keys: a tick on which no
\* generator contributes and the static fragment is empty ends the loop.
C3_NoEmptyPayload ==
    \A i \in 1..Len(published) : published[i].payload # {}

\* C10: once the stop signal is set the worker terminates, with no need for
\* the clock to advance: the wait returns on the signal, and the loop-top
\* check that finds the signal set leaves the loop.
C10_StopEndsWorker ==
    /\ stop_event ~> (t_pc = "done")
    /\ [][(t_pc = "check_stop" /\ stop_event /\ t_pc' # t_pc)
             => (t_pc' = "disconnect" /\ exit_reason' = "stop")]_vars

\* the worker was stopped in the middle of its wait and has terminated
C10_Witness ==
    /\ t_pc = "done"
    /\ exit_reason = "stop"
    /\ pub_count >= 1
    /\ sleep_left = t_cfg.TIME_INTERVAL

(***************************************************************************)
(* Properties of the command listener                                      *)
(***************************************************************************)

\* the claim's test of a message: its topic is a target topic and its bytes
\* are the UTF-8 form of the trigger
IsTrigger(msg) ==
    msg.topic \in command_target_topics /\ msg.payload = Utf8Encode(trigger_command)

TriggersIn(inbox) == Cardinality({i \in 1..Len(inbox) : IsTrigger(inbox[i])})

\* C6: for any sequence of inbound messages the listener has made exactly one
\* publish of the response (response topic, QoS 1, not retained) per message
\* that carries the trigger on a target topic, and no other publish.
C6_OnePublishPerTrigger ==
    /\ Len(l_published) = TriggersIn(l_inbox)
    /\ \A i \in 1..Len(l_published) : l_published[i] = FlagPublish

C6_Witness ==
    /\ Len(l_inbox) = 2
    /\ l_inbox[1] = [payload |-> trigger_command, topic |-> "other"]
    /\ IsTrigger(l_inbox[2])
    /\ Len(l_published) = 1

\* C7: a message that does not match (wrong topic, wrong payload, not UTF-8)
\* changes nothing of the listener but its record of the messages received,
\* and a matching message that follows it is answered.
C7_NoMatchNoChange ==
    /\ [][(l_inbox' # l_inbox /\ ~IsTrigger(l_inbox'[Len(l_inbox')]))
             => UNCHANGED <<l_pc, l_stop, l_subscribed, l_client, l_conn, l_loop,
                            l_published>>]_vars
    /\ [][(l_inbox' # l_inbox /\ l_inbox # <<>> /\ ~IsTrigger(l_inbox[Len(l_inbox)])
              /\ IsTrigger(l_inbox'[Len(l_inbox')]))
             => l_published' = Append(l_published, FlagPublish)]_vars

C7_Witness ==
    /\ Len(l_inbox) = 2
    /\ ~Utf8Decode(l_inbox[1].payload).ok
    /\ IsTrigger(l_inbox[2])
    /\ Len(l_published) = 1
    /\ ~l_stop /\ l_pc = "wait"

(***************************************************************************)
(* Properties of Simulator.stop()                                          *)
(***************************************************************************)

\* C8: stop() returns within its shutdown budget of 10 seconds, counted from
\* the start_time it takes, whatever the number of workers and whichever of
\* them never end.
C8_ReturnsWithinBudget ==
    s_pc = "returned" => now - start_time <= Budget

\* a worker ends within the budget after its signal
InTime(w) == w_delay[w] = Dead \/ (w_delay[w] # Never /\ w_delay[w] < Budget)

\* C9: when stop() returns, the workers it reports are exactly those alive at
\* that moment: none if every worker ends within the budget after its signal,
\* and exactly the hung one if one worker never ends and the others end within
\* the budget, wherever it is in the fleet order.
C9_ReportsExactlyAlive ==
    s_pc = "returned" =>
        /\ reported = {w \in Workers : is_alive(w, now)}
        /\ (\A w \in Workers : InTime(w)) => reported = {}
        /\ \A h \in Workers :
              (w_delay[h] = Never /\ \A w \in Workers \ {h} : InTime(w))
                  => reported = {h}

\* the second of three workers hangs, the others need a second
C9_Witness ==
    /\ s_pc = "returned"
    /\ w_delay = <<10 * TicksPerTenth, Never, 10 * TicksPerTenth>>
    /\ reported = {2}
    /\ warned = {2}
    /\ now - start_time = Budget

(***************************************************************************)
(* Properties of the Topic worker after a stop signal or a failure         *)
(***************************************************************************)

\* C11: once the stop event of a Topic is set, its worker makes at most one
\* more publish call (that of the cycle which had passed the loop-top test),
\* starts no further cycle, and after leaving the loop neither re-enters it nor
\* connects again.
C11_OneMorePublish ==
    /\ [](pubs_after_stop <= 1)
    /\ [][stop_event => ~(t_pc = "check_stop" /\ t_pc' = "check_client")]_vars
    /\ [][(t_pc \in {"disconnect", "done"}) => (t_pc' \in {"disconnect", "done"})]_vars

\* the stop event was set in the middle of a cycle, whose publish call was made
C11_Witness ==
    /\ t_pc = "done"
    /\ exit_reason = "stop"
    /\ pubs_after_stop = 1
    /\ conn_failure = ""

\* C12 as stated: after a failed first connection, a refused connection or a
\* disconnect in mid-run the Topic never publishes again.
C12_NoPublishAfterFailure ==
    conn_failure # "" => pubs_after_failure = 0

\* C12: a Topic calls connect at most once: after a failed first connection or
\* a refused connection it makes no publish call, after a disconnect in mid-run
\* at most the one of the cycle that had passed the loop-top tests; it is never
\* connected again, makes no second connection attempt, and its worker ends.
C12_NoReconnect ==
    /\ [](conn_failure \in {"connect_failed", "refused"} => pubs_after_failure = 0)
    /\ [](conn_failure = "lost" => pubs_after_failure <= 1)
    /\ [][conn_failure # "" =>
             (t_pc' \notin {"connect", "connect_call"}
                 /\ conn' \notin {"connecting", "connected"})]_vars
    /\ [][(t_pc' = "connect" /\ t_pc # "connect") => (t_pc = "created")]_vars
    /\ (conn_failure # "") ~> (t_pc = "done")

\* the connection was lost after the loop-top tests; the publish call of that
\* cycle was made and the worker has ended
C12_Witness ==
    /\ conn_failure = "lost"
    /\ pubs_after_failure = 1
    /\ t_pc = "done"
    /\ d_pc["main"] = "idle"

\* C14: the thread of the orchestrator only sets a worker's stop event: it is
\* never in the part of Topic.disconnect() that stops the network loop,
\* disconnects the client and clears the client reference.
C14_MainOnlySignals ==
    d_pc["main"] \notin {"is_connected", "loop_stop", "disconnect", "clear"}

(***************************************************************************)
(* C20                                                                     *)
(***************************************************************************)
\* the number that a character of a decimal numeral stands for
DigitVal(c) == CHOOSE d \in 0..9 : DigitChars[d + 1] = c

\* the number that a text of decimal digits denotes
RECURSIVE ParseNat(_)
ParseNat(text) ==
    IF Len(text) = 1 THEN DigitVal(text[1])
    ELSE ParseNat(SubSeq(text, 1, Len(text) - 1)) * 10 + DigitVal(text[Len(text)])

\* text is the decimal numeral of n, without sign for n >= 0 and without
\* leading zeros
IsNumeral(text, n) ==
    /\ Len(text) >= 1
    /\ LET digits == IF text[1] = "-" THEN Tail(text) ELSE text
       IN  /\ Len(digits) >= 1
           /\ \A k \in 1..Len(digits) : \E d \in 0..9 : DigitChars[d + 1] = digits[k]
           /\ Len(digits) > 1 => digits[1] # "0"
           /\ (text[1] = "-") <=> (n < 0)
           /\ ParseNat(digits) = (IF n < 0 THEN -n ELSE n)

\* url is P/n
IsRangeTopic(url, P, n) ==
    /\ Len(url) > Len(P) + 1
    /\ SubSeq(url, 1, Len(P)) = P
    /\ url[Len(P) + 1] = "/"
    /\ IsNumeral(SubSeq(url, Len(P) + 2, Len(url)), n)

\* C20: once the configuration is loaded, every range entry of TOPICS with a
\* prefix P, start S and end E has given, at its place among the Topics of
\* the other entries, exactly the E-S+1 Topics P/S, P/(S+1), ..., P/E in
\* ascending order when S <= E and no Topic when E < S; the Topics of the
\* entries before it and after it are those that these entries give without it
C20_RangeExpansion ==
    m_pc = "run" =>
        \A i \in 1..Len(settings.TOPICS) :
            LET tc == settings.TOPICS[i]
                S == tc.RANGE_START
                E == tc.RANGE_END
                before == load_config(SubSeq(settings.TOPICS, 1, i - 1), 1)
                after == load_config(SubSeq(settings.TOPICS, i + 1, Len(settings.TOPICS)), 1)
                count == Len(topics) - Len(before) - Len(after)
            IN  (tc.TYPE = "multiple" /\ tc.PREFIX # <<>>) =>
                    /\ count = (IF S <= E THEN E - S + 1 ELSE 0)
                    /\ SubSeq(topics, 1, Len(before)) = before
                    /\ SubSeq(topics, Len(before) + count + 1, Len(topics)) = after
                    /\ \A k \in 1..count :
                           IsRangeTopic(topics[Len(before) + k], tc.PREFIX, S + k - 1)

\* a range entry with E < S followed by the range entry 1..2 has been loaded
C20_Witness ==
    /\ m_pc = "run"
    /\ Len(settings.TOPICS) = 2
    /\ settings.TOPICS[1].TYPE = "multiple" /\ settings.TOPICS[2].TYPE = "multiple"
    /\ settings.TOPICS[1].RANGE_END < settings.TOPICS[1].RANGE_START
    /\ settings.TOPICS[2].RANGE_START = 1 /\ settings.TOPICS[2].RANGE_END = 2
    /\ topics = << <<"d", "e", "v", "/", "1">>, <<"d", "e", "v", "/", "2">> >>

\* the range entry with item ids of two digits has been loaded after a single topic
C20_WitnessTwoDigits ==
    /\ m_pc = "run"
    /\ Len(settings.TOPICS) = 2
    /\ settings.TOPICS[1].TYPE = "single"
    /\ settings.TOPICS[2].RANGE_START = BigStart
    /\ Len(topics) = MaxRange + 2
    /\ IsRangeTopic(topics[3], Prefix, BigStart + 1)
    /\ Len(topics[3]) = Len(Prefix) + 3

(***************************************************************************)
(* C13, C15..C19                                                           *)
(***************************************************************************)
\* the i-th Topic can make a publish call
CanPublish(i) == f_state[i] = "loop" /\ ~f_stop[i] /\ f_client[i] = "obj"

\* in this step the i-th Topic ends, or its own callbacks set its stop event
FailsInStep(i) ==
    \/ f_state[i] # "done" /\ f_state'[i] = "done"
    \/ ~f_stop[i] /\ f_stop'[i] /\ signalled' = signalled

\* C13: a step in which one Topic fails to connect, loses its connection or
\* leaves its loop changes no state of another Topic and nothing of the main
\* thread, and as long as no KeyboardInterrupt has come and some Topic is
\* alive the main thread is not in stop() and has set no stop event
C13_FailureStaysLocal ==
    /\ [][\A i \in Fleet \cap DOMAIN f_state' :
              FailsInStep(i) =>
                  /\ \A j \in Fleet \ {i} :
                         /\ f_state'[j] = f_state[j]
                         /\ f_stop'[j] = f_stop[j]
                         /\ f_client'[j] = f_client[j]
                         /\ f_pubs'[j] = f_pubs[j]
                  /\ m_pc' = m_pc /\ s_pc' = s_pc /\ signalled' = signalled]_vars
    /\ []((~interrupted /\ \E j \in Fleet : TopicAlive(j)) =>
              (m_pc \in {"start", "monitor"} /\ signalled = {}))

\* one Topic has failed to connect and the other can go on publishing
C13_Witness ==
    /\ m_pc = "monitor" /\ ~interrupted
    /\ Len(topics) = 2
    /\ f_state[1] = "done" /\ f_pubs[1] = 0 /\ ~f_stop[1]
    /\ CanPublish(2) /\ f_pubs[2] < MaxFleetPubs

\* C15: when the process has ended after a KeyboardInterrupt, stop() has set
\* the stop event of every Topic that was started and is still alive
C15_InterruptStopsAll ==
    (interrupted /\ m_pc = "exited") => \A i \in Fleet : TopicAlive(i) => i \in signalled

\* C16: without a KeyboardInterrupt the monitor loop is left only when no
\* Topic is alive, stop() sets the stop event of no live Topic, and once no
\* Topic is alive in the monitor loop run() returns
C16_ShutdownWhenNoneAlive ==
    /\ [][(m_pc = "monitor" /\ m_pc' # "monitor" /\ ~interrupted') =>
              (\A i \in Fleet : ~TopicAlive(i))]_vars
    /\ [][\A i \in Fleet \cap DOMAIN f_state' :
              (~interrupted' /\ i \in signalled' /\ i \notin signalled) => ~TopicAlive(i)]_vars
    /\ [](~interrupted => signalled = {})
    /\ (m_pc = "monitor" /\ \A i \in Fleet : ~TopicAlive(i)) ~>
           (m_pc = "finished" \/ interrupted)

\* run() has returned after both Topics ended on their own, one after publishing
C16_Witness ==
    /\ m_pc = "finished" /\ ~interrupted
    /\ Len(topics) = FleetSize
    /\ \A i \in Fleet : f_state[i] = "done"
    /\ f_pubs[1] = MaxFleetPubs
    /\ signalled = {}
    /\ s_pc = "returned"

\* Thread.is_alive() of the listener
ListenerAlive == l_pc \notin {"created", "done"}

\* C17: a Topic is started only while the listener is alive
C17_ListenerFirst ==
    [][\A i \in Fleet \cap DOMAIN f_state' :
           (f_state[i] = "created" /\ f_state'[i] # "created") => ListenerAlive]_vars

\* C18: when the listener has died while the main thread is in its monitor
\* loop, every Topic still alive gets its stop event set by stop()
C18_ListenerDeathStops ==
    (l_pc = "done" /\ m_pc = "monitor") ~> (\A i \in Fleet : TopicAlive(i) => i \in signalled)

\* C19: the exit status is not 0 exactly when no Topic was loaded
C19_ExitStatus ==
    m_pc = "exited" => ((exit_status # 0) <=> (topics = <<>>))

(***************************************************************************)
(* C30                                                                     *)
(***************************************************************************)
\* C30: the worker comes to _generate_payload() only from a loop-top check
\* that found a client that is connected, and to the publish call only from
\* the _generate_payload() of the same cycle; a cycle whose loop-top check
\* finds no client or no connection leaves the loop with no generator
\* advanced and nothing published, and after the loop no generator is
\* advanced and nothing is published
C30_CheckBeforeGenerate ==
    /\ [][(t_pc' = "generate" /\ t_pc # "generate") =>
              (t_pc = "check_conn" /\ client = "obj" /\ conn = "connected")]_vars
    /\ [][(t_pc' = "publish" /\ t_pc # "publish") => (t_pc = "generate")]_vars
    /\ [][(topic_data' # topic_data) => (t_pc = "generate")]_vars
    /\ [][(published' # published \/ pub_count' # pub_count) =>
              (t_pc = "publish" /\ client = "obj")]_vars
    /\ [][(/\ t_pc' # t_pc
           /\ \/ t_pc = "check_client" /\ client = "none"
              \/ t_pc = "check_conn" /\ (client = "none" \/ conn # "connected")) =>
              (/\ t_pc' = "disconnect"
               /\ topic_data' = topic_data
               /\ published' = published
               /\ pub_count' = pub_count)]_vars
    /\ [][(t_pc \in {"disconnect", "done"}) =>
              (/\ t_pc' \in {"disconnect", "done"}
               /\ topic_data' = topic_data
               /\ published' = published)]_vars

\* after a publish a later cycle found the connection lost at its loop top
\* and the worker ended with nothing more published
C30_Witness ==
    /\ t_pc = "done"
    /\ exit_reason = "not_connected"
    /\ pub_count = 1
    /\ t_cfg = PlaylistDevice
    /\ topic_data[1].obj.current_index = 1

(***************************************************************************)
(* C29                                                                     *)
(***************************************************************************)
\* C29: a Topic with values to publish, whose connection the broker accepted
\* and did not drop and which nobody asked to stop, has published at least
\* once when its thread ends
C29_AcceptedPublishes ==
    (/\ t_pc = "done"
     /\ t_cfg = PlaylistDevice
     /\ conn = "disconnected"
     /\ conn_failure = ""
     /\ d_pc["main"] = "idle") => pub_count >= 1

(***************************************************************************)
(* C26                                                                     *)
(***************************************************************************)
\* C26: no step of a Topic, of a listener, of the thread that stops them or
\* of a broker callback takes a stop event that is set back to unset
C26_StopEventStaysSet ==
    [][(stop_event => stop_event') /\ (l_stop => l_stop')]_vars

\* a Topic stopped by the main thread while connected has run to its end
C26_Witness ==
    /\ t_pc = "done"
    /\ stop_event
    /\ exit_reason = "stop"
    /\ conn = "disconnected"
    /\ d_pc["main"] = "returned"
    /\ pub_count >= 1

\* a listener that took a message and then was stopped has run to its end
C26_WitnessListener == l_pc = "done" /\ l_stop /\ l_client = "none" /\ l_inbox # <<>>

(***************************************************************************)
(* C27                                                                     *)
(***************************************************************************)
\* C27: a Topic has at most one publish call that is not yet completed
C27_OneInFlight == in_flight <= 1

(***************************************************************************)
(* C24                                                                     *)
(***************************************************************************)
\* the j-th generator is active and its generate_value() raises
Raises(j) ==
    /\ topic_data[j].obj.is_active
    /\ topic_data[j].type = "int"
    /\ topic_data[j].obj.max_step.tag # "scalar"

\* C24: in a _generate_payload() in which a generator raises, that generator
\* is deactivated and nothing else of it changes; every other active generator
\* is advanced as its own generate_value() advances it and its value, when it
\* has one, is in the payload; the inactive ones are left alone; and the
\* worker goes on to publish this payload
C24_OnlyFailingDeactivated ==
    [][(t_pc = "generate" /\ t_pc' # "generate" /\ \E j \in 1..Len(topic_data) : Raises(j)) =>
           (/\ t_pc' = "publish"
            /\ Len(topic_data') = Len(topic_data)
            /\ \A j \in 1..Len(topic_data) :
                   IF Raises(j)
                   THEN /\ topic_data'[j] = [topic_data[j] EXCEPT !.obj.is_active = FALSE]
                        /\ topic_data[j].name \notin Keys(pending'.payload)
                   ELSE IF topic_data[j].obj.is_active
                   THEN /\ topic_data'[j] = generate_value(topic_data[j]).gen
                        /\ generate_value(topic_data[j]).ret # None =>
                               <<topic_data[j].name, generate_value(topic_data[j]).ret>>
                                   \in pending'.payload
                   ELSE topic_data'[j] = topic_data[j])]_vars

\* the device whose first generator raises has published twice: the values
\* of its other generators are in both payloads and these generators are
\* still active
C24_Witness ==
    /\ pub_count = 2
    /\ Len(topic_data) = 3
    /\ topic_data[1].name = "n" /\ ~topic_data[1].obj.is_active
    /\ topic_data[2].obj.is_active /\ topic_data[3].obj.is_active
    /\ published[1].payload = {<<"v", Scalar(1)>>, <<"m", Scalar(1)>>}
    /\ published[2].payload = {<<"v", Scalar(2)>>, <<"m", Scalar(1)>>}

(***************************************************************************)
(* C21                                                                     *)
(***************************************************************************)
\* C21: once the configuration is loaded, every list entry of TOPICS with a
\* prefix P and the literals i1..ik has given, at its place among the Topics
\* of the entries before it and after it, exactly the k Topics P/i1, ..., P/ik
\* in the order of the list; and run() starts the Topics in the order in
\* which they stand in self.topics
C21_ListExpansion ==
    /\ [](m_pc \in {"run", "start", "monitor"} =>
            \A i \in 1..Len(settings.TOPICS) :
                LET tc == settings.TOPICS[i]
                    before == load_config(SubSeq(settings.TOPICS, 1, i - 1), 1)
                    after == load_config(SubSeq(settings.TOPICS, i + 1,
                                                Len(settings.TOPICS)), 1)
                    count == Len(topics) - Len(before) - Len(after)
                IN  (tc.TYPE = "list" /\ tc.PREFIX # <<>>) =>
                        /\ count = Len(tc.LIST)
                        /\ SubSeq(topics, 1, Len(before)) = before
                        /\ SubSeq(topics, Len(before) + count + 1, Len(topics)) = after
                        /\ \A k \in 1..count :
                               IsRangeTopic(topics[Len(before) + k], tc.PREFIX, tc.LIST[k]))
    /\ [](Len(f_state) = Len(topics))
    /\ [][\A i \in Fleet \cap DOMAIN f_state' :
              (f_state[i] = "created" /\ f_state'[i] # "created") =>
                  (/\ \A j \in 1..(i - 1) : f_state[j] # "created"
                   /\ \A j \in (i + 1)..Len(f_state) : f_state'[j] = "created")]_vars

\* the list entry with the literals 3 and 1 and a single entry after it have
\* been loaded and all their Topics started
C21_Witness ==
    /\ m_pc = "monitor"
    /\ Len(settings.TOPICS) = 2
    /\ settings.TOPICS[1].TYPE = "list" /\ settings.TOPICS[1].LIST = <<3, 1>>
    /\ topics = << <<"d", "e", "v", "/", "3">>, <<"d", "e", "v", "/", "1">>,
                   <<"d", "e", "v">> >>
    /\ \A i \in 1..3 : f_state[i] = "connect"

(***************************************************************************)
(* C22, C23                                                                *)
(***************************************************************************)
\* the entry of TOPICS whose Topics take the i-th place of self.topics
OwnerOf(i) ==
    CHOOSE e \in 1..Len(settings.TOPICS) :
        /\ Len(load_config(SubSeq(settings.TOPICS, 1, e - 1), 1)) < i
        /\ i <= Len(load_config(SubSeq(settings.TOPICS, 1, e), 1))

Has(dict, key) == \E p \in dict : p[1] = key
ValueOf(dict, key) == CHOOSE v \in {p[2] : p \in dict} : <<key, v>> \in dict

\* the value of a key by the layers: the entry, the top level, the default
Layered(topic_level, fleet_level, key, builtin) ==
    IF Has(topic_level, key) THEN ValueOf(topic_level, key)
    ELSE IF Has(fleet_level, key) THEN ValueOf(fleet_level, key)
    ELSE builtin

\* clean session by the layers; at one level 'clean' goes before 'CLEAN_SESSION'
LayeredClean(topic_level, fleet_level) ==
    IF Has(topic_level, "clean") THEN ValueOf(topic_level, "clean")
    ELSE IF Has(topic_level, "CLEAN_SESSION") THEN ValueOf(topic_level, "CLEAN_SESSION")
    ELSE IF Has(fleet_level, "clean") THEN ValueOf(fleet_level, "clean")
    ELSE IF Has(fleet_level, "CLEAN_SESSION") THEN ValueOf(fleet_level, "CLEAN_SESSION")
    ELSE None

\* C22: once the configuration is loaded, each of the four delivery settings
\* of each Topic is the value its own entry of TOPICS sets, otherwise the
\* value the top level of the settings sets, otherwise the built-in default
\* (qos 1, retain False, time_interval 10, clean None); the settings of a
\* Topic do not depend on what any other entry sets
C22_LayeredSettings ==
    m_pc = "run" =>
        /\ Len(client_settings) = Len(topics)
        /\ \A i \in 1..Len(topics) :
               LET topic_level == settings.TOPICS[OwnerOf(i)].CLIENT
                   fleet_level == settings.CLIENT
               IN  /\ client_settings[i].clean = LayeredClean(topic_level, fleet_level)
                   /\ client_settings[i].retain =
                          Layered(topic_level, fleet_level, "RETAIN", Bool(FALSE))
                   /\ client_settings[i].qos =
                          Layered(topic_level, fleet_level, "QOS", Scalar(1))
                   /\ client_settings[i].time_interval =
                          Layered(topic_level, fleet_level, "TIME_INTERVAL", Scalar(10))

\* the first Topic takes its QOS and its clean session from its entry, its
\* RETAIN from the top level and its interval from the defaults, while the
\* second Topic, whose entry sets nothing, has the QOS of the top level
C22_Witness ==
    /\ m_pc = "run"
    /\ Len(topics) = 2
    /\ Has(settings.CLIENT, "clean") /\ Has(settings.CLIENT, "RETAIN")
    /\ Has(settings.CLIENT, "QOS") /\ ValueOf(settings.CLIENT, "QOS") = Scalar(2)
    /\ ~Has(settings.CLIENT, "TIME_INTERVAL")
    /\ ~Has(settings.TOPICS[1].CLIENT, "clean")
    /\ Has(settings.TOPICS[1].CLIENT, "CLEAN_SESSION")
    /\ ~Has(settings.TOPICS[1].CLIENT, "RETAIN")
    /\ ~Has(settings.TOPICS[1].CLIENT, "TIME_INTERVAL")
    /\ client_settings[1] = ClientSettings(Bool(FALSE), Bool(TRUE), Scalar(0), Scalar(10))
    /\ client_settings[2] = ClientSettings(Bool(TRUE), Bool(TRUE), Scalar(2), Scalar(10))

\* an entry of TOPICS with a prefix, a known kind, and for a range or a list
\* something to expand
WellFormedTopic(tc) ==
    /\ tc.PREFIX # <<>>
    /\ tc.TYPE \in {"single", "multiple", "list"}
    /\ tc.TYPE = "multiple" => tc.RANGE_START <= tc.RANGE_END
    /\ tc.TYPE = "list" => tc.LIST # <<>>

\* the number of Topics a well-formed entry stands for
ExpectedCount(tc) ==
    IF tc.TYPE = "single" THEN 1
    ELSE IF tc.TYPE = "multiple" THEN tc.RANGE_END - tc.RANGE_START + 1
    ELSE Len(tc.LIST)

\* a generator configuration of a known type that has its NAME
WellFormedGen(c) == c.TYPE \in {"int", "bool", "raw_values"} /\ c.NAME # Absent

\* C23: once the configuration is loaded, self.topics are the Topics of the
\* well-formed entries of TOPICS in their order, as if the malformed entries
\* (no prefix, no or unknown kind, empty list, invalid range) were not there,
\* and each Topic has one generator for each well-formed generator
\* configuration of its entry, in their order, the malformed ones (unknown
\* type, no NAME) left out
C23_SkipOnlyMalformed ==
    m_pc = "run" =>
        LET good == SelectSeq(settings.TOPICS, WellFormedTopic)
        IN  /\ topics = load_config(good, 1)
            /\ \A k \in 1..Len(good) : Len(LoadTopic(good[k])) = ExpectedCount(good[k])
            /\ Len(f_data) = Len(topics)
            /\ \A i \in 1..Len(topics) :
                   LET wf == SelectSeq(settings.TOPICS[OwnerOf(i)].DATA, WellFormedGen)
                   IN  /\ WellFormedTopic(settings.TOPICS[OwnerOf(i)])
                       /\ Len(f_data[i]) = Len(wf)
                       /\ \A k \in 1..Len(wf) :
                              /\ f_data[i][k].name = wf[k].NAME
                              /\ f_data[i][k].type = wf[k].TYPE

\* a single entry with two malformed generators among four, an empty list
\* entry, and a range entry with one malformed generator have been loaded
C23_Witness ==
    /\ m_pc = "run"
    /\ Len(settings.TOPICS) = 3
    /\ settings.TOPICS[1].TYPE = "single" /\ Len(settings.TOPICS[1].DATA) = 4
    /\ settings.TOPICS[2].TYPE = "list" /\ settings.TOPICS[2].LIST = <<>>
    /\ settings.TOPICS[3].TYPE = "multiple" /\ Len(settings.TOPICS[3].DATA) = 2
    /\ Len(topics) = 1 + FleetSize
    /\ Len(f_data[1]) = 2 /\ f_data[1][1].name = "v" /\ f_data[1][2].name = "on"
    /\ Len(f_data[2]) = 1 /\ f_data[2][1].name = "n"

(***************************************************************************)
(* C28                                                                     *)
(***************************************************************************)
\* C28: once the Topics are constructed, a step that changes the generators
\* of one Topic is a step of that Topic's own thread in its loop: it leaves
\* the generators of every other Topic as they were, those of the Topics
\* expanded from the same entry included, and it is no step of the main thread
C28_GeneratorsOwned ==
    [][(DOMAIN f_data' = DOMAIN f_data) =>
          (\A i \in DOMAIN f_data :
              (f_data'[i] # f_data[i]) =>
                  (/\ f_state[i] = "loop"
                   /\ f_client[i] = "obj"
                   /\ \A j \in DOMAIN f_data \ {i} : f_data'[j] = f_data[j]
                   /\ main_vars' = main_vars
                   /\ s_pc' = s_pc /\ signalled' = signalled))]_vars

\* two Topics of one entry in their loops: the first has gone through its
\* playlist, the second has not generated a value yet
C28_Witness ==
    /\ Len(settings.TOPICS) = 1
    /\ Len(f_data) >= 2
    /\ f_state[1] = "loop" /\ f_state[2] = "loop"
    /\ f_data[1][1].obj.current_index = 2
    /\ f_data[2][1].obj.current_index = 0
    /\ f_data[2][1].obj.is_active

(***************************************************************************)
(* C25                                                                     *)
(***************************************************************************)
\* C25: a math expression generator is terminal from the first of these on:
\* its expression did not compile, an evaluation raised, or an evaluation
\* gave a result that is no number; a terminal generator hands back no value
\* in any later call
C25_TerminalCases ==
    /\ ~mex.compiled => \A k \in 1..Len(mex_hist) : mex_hist[k].ret = None
    /\ \A k \in 1..Len(mex_hist) :
           mex_hist[k].did \in {"error", "other"} =>
               \A j \in (k + 1)..Len(mex_hist) : mex_hist[j].ret = None

(***************************************************************************)
(* C31, C32                                                                *)
(***************************************************************************)
\* the thread has ended after a _connect() that returned True
EndedAfterLoop == t_pc = "done" /\ exit_reason # "connect_failed"

\* C31: when the thread of a Topic whose _connect() returned True has ended,
\* by whatever way it left its loop, the network loop has been stopped, the
\* client reference is cleared, and the client is not left connected: a
\* client that was connected has been sent its disconnect
C31_TeardownOnExit ==
    EndedAfterLoop =>
        /\ ~loop_running
        /\ loop_stops >= 1
        /\ client = "none"
        /\ conn # "connected"

\* C32: with Simulator.stop() calling disconnect() at any point of the
\* worker's loop and of its own disconnect(), loop_stop() and disconnect() are
\* each called at most once on the client, and when the worker has ended and
\* the call of Simulator.stop() has returned the client reference is cleared
C32_TeardownOnce ==
    /\ loop_stops <= 1
    /\ disconnects <= 1
    /\ (t_pc = "done" /\ d_pc["main"] \in {"idle", "returned"}) => client = "none"

(***************************************************************************)
(* C33                                                                     *)
(***************************************************************************)
\* the threads that are alive when stop() is called
AliveAtStop == {w \in Workers : w_delay[w] # Dead}

\* C33: from the moment stop() turns to its joins, every thread that was
\* alive when stop() was called has had its disconnect() call, so that no
\* join() is made while a live thread is still to be signalled; a thread that
\* was not alive is never signalled and never among the threads to join
C33_SignalAllThenJoin ==
    /\ s_pc \in {"loop", "join", "final", "returned"} => signalled = AliveAtStop
    /\ signalled \subseteq AliveAtStop
    /\ \A k \in 1..Len(threads_to_join) : threads_to_join[k] \in AliveAtStop
    /\ s_pc = "join" => Head(threads_to_join) \in signalled

\* stop() is in a join() with two threads signalled and one thread that had
\* ended before stop() was called
C33_Witness ==
    /\ s_pc = "join"
    /\ Cardinality(signalled) = 2
    /\ \E w \in Workers : w_delay[w] = Dead

(***************************************************************************)
(* C34                                                                     *)
(***************************************************************************)
\* the connection was refused or has been lost
ListenerFailed == l_conn \in {"lost", "refused"}

\* C34: when the connection of the listener is refused or lost, its stop
\* event is set; its thread then wakes, stops the network loop, clears the
\* client and ends; and from the failure on, through the teardown and after
\* the thread has ended, the listener does not connect or subscribe again and
\* publishes no further flag
C34_FailureEndsListener ==
    /\ [](ListenerFailed => l_stop)
    /\ ListenerFailed ~> (l_pc = "done" /\ l_client = "none" /\ ~l_loop)
    /\ [][(ListenerFailed \/ l_pc = "done") =>
             (/\ l_published' = l_published
              /\ ~l_subscribed'
              /\ l_conn' \notin {"connecting", "connected"})]_vars

\* the connection has been lost after a flag was published, and the thread is
\* in its teardown with the network loop stopped
C34_Witness ==
    /\ l_conn = "lost"
    /\ l_pc = "disconnect"
    /\ ~l_loop
    /\ l_published # <<>>

(***************************************************************************)
(* C35                                                                     *)
(***************************************************************************)
\* no generator of the Topic is active
AllTerminal == \A i \in 1..Len(topic_data) : ~topic_data[i].obj.is_active

\* C35: a Topic with a non-empty PAYLOAD_ROOT never leaves its loop for want
\* of data, and each cycle that reaches _generate_payload() with no active
\* generator goes on to publish, the payload being the static part alone
C35_StaticKeepsPublishing ==
    /\ [](t_cfg.PAYLOAD_ROOT # {} => exit_reason # "no_data")
    /\ [][(t_pc = "generate" /\ t_pc' # "generate" /\ t_cfg.PAYLOAD_ROOT # {}
           /\ AllTerminal) =>
             (/\ t_pc' = "publish"
              /\ pending'.payload = t_cfg.PAYLOAD_ROOT)]_vars

\* the playlist of a Topic with a static payload has ended and been
\* deactivated, and the Topic has published the static payload alone since
C35_Witness ==
    /\ t_cfg.PAYLOAD_ROOT = StaticRoot
    /\ Len(topic_data) = 1
    /\ AllTerminal
    /\ Len(published) = 4
    /\ published[2].payload # StaticRoot
    /\ published[3].payload = StaticRoot
    /\ published[4].payload = StaticRoot
    /\ t_pc = "wait"

(***************************************************************************)
(* C36                                                                     *)
(***************************************************************************)
\* C36: after every generate_value() call of a math expression generator, x
\* lies between INTERVAL_START and INTERVAL_END, whatever delta was drawn
\* between MIN_DELTA and MAX_DELTA
C36_XWithinInterval ==
    Len(mex_hist) > 0 => (0 <= mex.x /\ mex.x <= MaxX)

(***************************************************************************)
(* C37                                                                     *)
(***************************************************************************)
\* the generators that are active once the payload has been generated and
\* whose should_retain() can succeed, and those for which it always does
CanRetain(data) ==
    {i \in 1..Len(data) : data[i].obj.is_active /\ data[i].retain_probability > 0}
MustRetain(data) ==
    {i \in 1..Len(data) : data[i].obj.is_active /\ data[i].retain_probability >= 100}

\* C37: the retain flag of each message is the device default or the success
\* of the retain draw of a generator that is active when the message is
\* published: with the default True every message is retained; with the
\* default False a message is retained only if an active generator has a
\* draw that can succeed, and it is retained if an active generator has a
\* draw that always succeeds; a generator that is no longer active never
\* makes a message retained
C37_RetainFlag ==
    /\ [](t_cfg.RETAIN => \A k \in 1..Len(published) : published[k].retain)
    /\ [][(t_pc = "generate" /\ t_pc' = "publish") =>
             (/\ t_cfg.RETAIN => pending'.retain
              /\ (~t_cfg.RETAIN /\ pending'.retain) => CanRetain(topic_data') # {}
              /\ (~t_cfg.RETAIN /\ MustRetain(topic_data') # {}) => pending'.retain)]_vars

\* a device of two playlists, the second with a retain draw that always
\* succeeds: its second message was retained, its third, published after the
\* second playlist had ended, was not
C37_Witness ==
    /\ ~t_cfg.RETAIN
    /\ Len(topic_data) = 2
    /\ topic_data[2].retain_probability = 100
    /\ ~topic_data[2].obj.is_active
    /\ Len(published) = 3
    /\ published[2].retain
    /\ ~published[3].retain


(***************************************************************************)
(* The client identity of a Topic                                          *)
(***************************************************************************)

\* C38: any two distinct Topics of a fleet create their clients with distinct
\* client ids, whatever random.randint() returns.
C38_DistinctClientIds ==
    \A i, j \in 1..Len(c_out) :
        (i # j) => (c_out[i].client_id # c_out[j].client_id)

\* the second half of C38: the id is the base id where clean is False and the
\* base id followed by "-" and a four-digit draw everywhere else
SuffixRule ==
    \A i \in 1..Len(c_out) :
        LET base == base_client_id(c_in[i].topic_url)
            id == c_out[i].client_id
        IN  IF c_in[i].clean = Bool(FALSE)
            THEN id = base
            ELSE /\ Len(id) = Len(base) + 5
                 /\ SubSeq(id, 1, Len(base) + 1) = base \o <<"-">>
                 /\ \E draw \in SuffixDraws : SubSeq(id, Len(base) + 2, Len(id)) = Str(draw)

(***************************************************************************)
(* The clean_session argument                                              *)
(***************************************************************************)

\* C39: a client of protocol 5 is created without clean_session whatever
\* clean is; a client of protocol 3.1 or 3.1.1 is created with clean_session
\* equal to clean, and to True where clean is None.
C39_CleanSessionByProtocol ==
    \A i \in 1..Len(c_out) :
        /\ c_out[i].protocol = c_protocol
        /\ (c_protocol = MQTTv5) => (c_out[i].clean_session = NotPassed)
        /\ (c_protocol \in {MQTTv31, MQTTv311}) =>
              (c_out[i].clean_session =
                  IF c_in[i].clean = None THEN Bool(TRUE) ELSE c_in[i].clean)

\* two protocol 5 clients exist, one of a Topic with clean False and one of a
\* Topic with clean None
C39_Witness ==
    /\ c_protocol = MQTTv5
    /\ \E i, j \in 1..Len(c_out) :
          /\ c_in[i].clean = Bool(FALSE)
          /\ c_in[j].clean = None
          /\ c_out[i].clean_session = NotPassed

(***************************************************************************)
(* The status light                                                        *)
(***************************************************************************)
Trigger == <<TRIGGER_TOPIC, TRIGGER_PAYLOAD>>

\* C40: security_state starts RED; it turns GREEN only in a call of
\* on_web_message() with the trigger topic and the trigger payload; once GREEN
\* it stays GREEN through every message, disconnect and reconnect; a page is
\* rendered with the flag exactly when the state is GREEN.
C40_SecurityState ==
    /\ security_state = "RED"
    /\ [][/\ (security_state = "RED" /\ security_state' = "GREEN") =>
                (w_recv' = Append(w_recv, Trigger))
          /\ (security_state = "GREEN") => (security_state' = "GREEN")
          /\ (security_state' \in {"RED", "GREEN"})
          /\ (w_page' # w_page) =>
                (/\ (w_page'.flag = FINAL_FLAG) <=> (security_state = "GREEN")
                 /\ (w_page'.flag = Absent) <=> (security_state = "RED"))
          /\ (w_page'.flag # Absent) => (security_state' = "GREEN")]_vars

\* the state is GREEN and the page shows the flag after a later message that is
\* not the trigger and a later loss of the connection
C40_Witness ==
    /\ security_state = "GREEN"
    /\ w_page.flag = FINAL_FLAG
    /\ Len(w_recv) >= 2 /\ w_recv[1] = Trigger /\ w_recv[Len(w_recv)] # Trigger
    /\ ~mqtt_connected /\ w_link = "tcp"

====
